---- MODULE Spec2Model ----
(***************************************************************************)
(* The MCMC sampling core of academic-presentations: MetropolisHastings,   *)
(* HamiltonianMC and NUTS, as state machines over a small model of IEEE    *)
(* floating point.                                                         *)
(*                                                                         *)
(* Numbers.  A float is a record [t, v]: t = "fin" with v the value in     *)
(* units of 1/Scale (fixed point), t = "inf" with v = 1 or -1, or          *)
(* t = "nan".  Sums are exact, products round toward zero, and a result    *)
(* beyond FloatMax overflows to an infinity, as in the float64 the code    *)
(* computes with.  A value of np.exp, of a uniform draw, or their product  *)
(* is a record [t, m, e] standing for (m / UDen) * exp(e / Scale), so that *)
(* every comparison the samplers make between a draw and an exponential    *)
(* is decided exactly.                                                     *)
(*                                                                         *)
(* Randomness.  np.random is a process-wide generator: its state is the    *)
(* variable rng, every draw reads it and advances it.                      *)
(***************************************************************************)
EXTENDS Integers, Sequences, FiniteSets, TLC

\* ------------------------------------------------------------------------
\* Bounds of the model
\* ------------------------------------------------------------------------

\* Fraction bits of the fixed-point floats.
FracBits == 2
Scale == 2 ^ FracBits
\* Largest finite magnitude, in units of 1/Scale.
FloatMax == 16384
\* np.exp(x) is inf for x > ExpMax and 0.0 for x < -ExpMin (whole units).
ExpMax == 6
ExpMin == 6
\* A uniform draw on [0, 1) is k / UDen for k in 0 .. UDen-1.
UDen == 8
\* The generator has RngMod states.
RngMod == 64

\* ------------------------------------------------------------------------
\* Floats
\* ------------------------------------------------------------------------

NaN == [t |-> "nan", v |-> 0]
PInf == [t |-> "inf", v |-> 1]
NInf == [t |-> "inf", v |-> -1]

Abs(n) == IF n < 0 THEN -n ELSE n
Sgn(n) == IF n < 0 THEN -1 ELSE IF n > 0 THEN 1 ELSE 0
\* Integer division rounding toward zero.
Trunc(n, d) == IF n >= 0 THEN n \div d ELSE -((-n) \div d)

\* The float of fixed-point value n: overflow gives an infinity.
Fin(n) ==
    IF n > FloatMax THEN PInf
    ELSE IF n < -FloatMax THEN NInf
    ELSE [t |-> "fin", v |-> n]

\* The float of the whole number n.
Num(n) == Fin(n * Scale)
Zero == Fin(0)
One == Num(1)

IsFinite(a) == a.t = "fin"
IsNaN(a) == a.t = "nan"

XNeg(a) == IF a.t = "nan" THEN NaN ELSE [t |-> a.t, v |-> -a.v]

XAdd(a, b) ==
    IF a.t = "nan" \/ b.t = "nan" THEN NaN
    ELSE IF a.t = "inf" /\ b.t = "inf" THEN (IF a.v = b.v THEN a ELSE NaN)
    ELSE IF a.t = "inf" THEN a
    ELSE IF b.t = "inf" THEN b
    ELSE Fin(a.v + b.v)

XSub(a, b) == XAdd(a, XNeg(b))

XMul(a, b) ==
    IF a.t = "nan" \/ b.t = "nan" THEN NaN
    ELSE IF a.t = "inf" \/ b.t = "inf"
         THEN (IF Sgn(a.v) * Sgn(b.v) = 0 THEN NaN
               ELSE [t |-> "inf", v |-> Sgn(a.v) * Sgn(b.v)])
    ELSE IF a.v # 0 /\ Abs(b.v) > (FloatMax * Scale + Scale) \div Abs(a.v)
         THEN [t |-> "inf", v |-> Sgn(a.v) * Sgn(b.v)]
    ELSE Fin(Trunc(a.v * b.v, Scale))

\* a < b as floats: false when either is NaN.
XLt(a, b) ==
    IF a.t = "nan" \/ b.t = "nan" THEN FALSE
    ELSE IF a.t = "inf" THEN (a.v = -1 /\ ~(b.t = "inf" /\ b.v = -1))
    ELSE IF b.t = "inf" THEN b.v = 1
    ELSE a.v < b.v

XGt(a, b) == XLt(b, a)
XLe(a, b) ==
    IF a.t = "nan" \/ b.t = "nan" THEN FALSE ELSE ~XLt(b, a)
XGe(a, b) == XLe(b, a)

\* ------------------------------------------------------------------------
\* Vectors (np.ndarray of shape (dim,))
\* ------------------------------------------------------------------------

VAdd(a, b) == [k \in 1..Len(a) |-> XAdd(a[k], b[k])]
VSub(a, b) == [k \in 1..Len(a) |-> XSub(a[k], b[k])]
VScale(c, a) == [k \in 1..Len(a) |-> XMul(c, a[k])]
VNeg(a) == [k \in 1..Len(a) |-> XNeg(a[k])]
VZeros(dim) == [k \in 1..dim |-> Zero]
VFinite(a) == \A k \in 1..Len(a) : IsFinite(a[k])

RECURSIVE XSum(_)
XSum(a) == IF Len(a) = 0 THEN Zero ELSE XAdd(XSum(SubSeq(a, 1, Len(a) - 1)), a[Len(a)])

\* np.dot(a, b)
Dot(a, b) == XSum([k \in 1..Len(a) |-> XMul(a[k], b[k])])

\* ------------------------------------------------------------------------
\* Exponentials and uniform draws
\* ------------------------------------------------------------------------

\* floor(10^6 * exp(i/8)) for i = 1 .. 56.
ExpMicro ==
    <<
       1133148, 1284025, 1454991, 1648721, 1868245, 2117000,
       2398875, 2718281, 3080216, 3490342, 3955076, 4481689,
       5078419, 5754602, 6520819, 7389056, 8372897, 9487735,
       10751013, 12182493, 13804574, 15642631, 17725424, 20085536,
       22759895, 25790339, 29224283, 33115451, 37524723, 42521082,
       48182698, 54598150, 61867809, 70105412, 79439839, 90017131,
       102002773, 115584284, 130974153, 148413159, 168174141, 190566268,
       215939872, 244691932, 277272284, 314190660, 356024660, 403428793,
       457144713, 518012824, 586985430, 665141633, 753704212, 854058762,
       967775365, 1096633158 >>

PNaN == [t |-> "nan", m |-> 0, e |-> 0]
PPInf == [t |-> "inf", m |-> 1, e |-> 0]
\* (m / UDen) * exp(e / Scale); zero is written with e = 0.
Pos(m, e) == IF m = 0 THEN [t |-> "pos", m |-> 0, e |-> 0] ELSE [t |-> "pos", m |-> m, e |-> e]
PZero == Pos(0, 0)
POne == Pos(UDen, 0)

\* np.exp(x)
Exp(x) ==
    IF x.t = "nan" THEN PNaN
    ELSE IF x.t = "inf" THEN (IF x.v = 1 THEN PPInf ELSE PZero)
    ELSE IF x.v > ExpMax * Scale THEN PPInf
    ELSE IF x.v < -(ExpMin * Scale) THEN PZero
    ELSE Pos(UDen, x.v)

\* Whether m1 * exp(d / Scale) < m2, for m1, m2 in 1 .. UDen and d > 0
\* (exp(3) exceeds every m2 / m1, and the table decides the rest exactly).
ScaledLess(m1, d, m2) ==
    LET i == d * (2 ^ (3 - FracBits))
    IN  IF i > 24 THEN FALSE
        ELSE m1 * ExpMicro[i] < m2 * 1000000

\* Whether m1 < m2 * exp(d / Scale), for m1, m2 in 1 .. UDen and d > 0.
LessScaled(m1, m2, d) ==
    LET i == d * (2 ^ (3 - FracBits))
    IN  IF i > 24 THEN TRUE
        ELSE m1 * 1000000 <= m2 * ExpMicro[i]

\* a < b for values of np.exp and draws: false when either is NaN.
PLt(a, b) ==
    IF a.t = "nan" \/ b.t = "nan" THEN FALSE
    ELSE IF a.t = "inf" THEN FALSE
    ELSE IF b.t = "inf" THEN TRUE
    ELSE IF b.m = 0 THEN FALSE
    ELSE IF a.m = 0 THEN TRUE
    ELSE IF a.e = b.e THEN a.m < b.m
    ELSE IF a.e > b.e THEN ScaledLess(a.m, a.e - b.e, b.m)
    ELSE LessScaled(a.m, b.m, b.e - a.e)

\* Python's min(1.0, y): y when y < 1.0, and 1.0 otherwise (also when y is NaN).
Min1(y) == IF PLt(y, POne) THEN y ELSE POne

\* ------------------------------------------------------------------------
\* np.random: the process-wide generator
\* ------------------------------------------------------------------------

\* The generator's next state.
RngNext(s) == (5 * s + 3) % RngMod

RECURSIVE RngSkip(_, _)
\* The generator's state after n draws.
RngSkip(s, n) == IF n = 0 THEN s ELSE RngSkip(RngNext(s), n - 1)

\* The standard normal variate drawn in state s: one of -1, -1/2, 0, 1/2, 1.
NormalOf(s) == Fin((((s \div 3) % 5) - 2) * (Scale \div 2))

\* The numerator k of the uniform variate k / UDen drawn in state s.
UniformOf(s) == (s \div (RngMod \div UDen)) % UDen

\* np.random.randn(dim): dim draws starting in state s.
randn(s, dim) == [k \in 1..dim |-> NormalOf(RngSkip(s, k - 1))]

\* ------------------------------------------------------------------------
\* The caller's target distribution
\* ------------------------------------------------------------------------

\* "gauss":   the standard normal, log density -|q|^2 / 2, any dimension;
\* "flat":    a constant log density;
\* "support": NaN where a coordinate is below -1, -inf where one is below 0,
\*            the standard normal elsewhere;
\* "raising": the standard normal, raising where a coordinate exceeds 2 in
\*            magnitude;
\* "gauss2":  the standard normal of dimension 2, raising on any other shape;
\* "quartic": log density -sum(q ** 4) / 4, with the nonlinear gradient -q ** 3.
Targets == {"gauss", "flat", "support", "raising", "gauss2"}

MinusHalfNormSq(q) == XMul(XNeg(Fin(Scale \div 2)), Dot(q, q))

Cube(x) == XMul(x, XMul(x, x))
MinusQuarterQuartic(q) ==
    XMul(XNeg(Fin(Scale \div 4)), XSum([k \in 1..Len(q) |-> XMul(q[k], Cube(q[k]))]))

TargetRaises(target, q) ==
    \/ target = "raising" /\ \E k \in 1..Len(q) : XGt(q[k], Num(2)) \/ XLt(q[k], Num(-2))
    \/ target = "gauss2" /\ Len(q) # 2

\* log_density(q), where it does not raise.
log_density(target, q) ==
    IF target = "flat" THEN Zero
    ELSE IF target = "quartic" THEN MinusQuarterQuartic(q)
    ELSE IF target = "support" /\ \E k \in 1..Len(q) : XLt(q[k], XNeg(One)) THEN NaN
    ELSE IF target = "support" /\ \E k \in 1..Len(q) : XLt(q[k], Zero) THEN NInf
    ELSE MinusHalfNormSq(q)

\* grad_log_density(q), where it does not raise.
grad_log_density(target, q) ==
    IF target = "flat" THEN VZeros(Len(q))
    ELSE IF target = "quartic" THEN [k \in 1..Len(q) |-> XNeg(Cube(q[k]))]
    ELSE VNeg(q)

\* ------------------------------------------------------------------------
\* Exceptions and attributes
\* ------------------------------------------------------------------------

NoExc == [type |-> "none", origin |-> "none"]
TargetError == [type |-> "TargetError", origin |-> "target"]
NumpyError(type) == [type |-> type, origin |-> "numpy"]

\* An attribute that is None, or holds val.
None == [set |-> FALSE, val |-> <<>>]
Some(x) == [set |-> TRUE, val |-> x]

\* ------------------------------------------------------------------------
\* Slicing
\* ------------------------------------------------------------------------

RECURSIVE SliceIndices(_, _, _)
\* The indices start, start+step, ... of a[start::step] for an array of
\* length len (0-based), for step # 0.
SliceIndices(start, step, len) ==
    IF start < 0 \/ start >= len THEN <<>>
    ELSE <<start>> \o SliceIndices(start + step, step, len)

\* A faulty slice that forgets the start: a[::step].
SliceKeepsBurnIn(a, start, step) ==
    LET idx == SliceIndices(IF step > 0 THEN 0 ELSE Len(a) - 1, step, Len(a))
    IN  [k \in 1..Len(idx) |-> a[idx[k] + 1]]

\* a[start::step] for start >= 0 (rows are numbered from 0).
Slice(a, start, step) ==
    LET len == Len(a)
        first == IF step > 0 THEN start
                 ELSE IF start >= len THEN len - 1 ELSE start
        idx == SliceIndices(first, step, len)
    IN  [k \in 1..Len(idx) |-> a[idx[k] + 1]]

\* ------------------------------------------------------------------------
\* MetropolisHastings
\* ------------------------------------------------------------------------

\* propose(current_state), drawn in generator state s, where proposal_std >= 0.
propose(std, current, s) ==
    VAdd(current, [k \in 1..Len(current) |-> XAdd(Zero, XMul(std, NormalOf(RngSkip(s, k - 1))))])

\* acceptance_probability(current_state, proposed_state).
MH_log_ratio(target, current, proposed) ==
    XSub(log_density(target, proposed), log_density(target, current))

acceptance_probability(target, current, proposed) ==
    Min1(Exp(MH_log_ratio(target, current, proposed)))

\* np.random.uniform() <= alpha: the comparison of sample() made non-strict.
UniformLessOrEqual(s, alpha) == ~PLt(alpha, Pos(UniformOf(s), 0))

\* np.random.uniform() < alpha, the draw made in generator state s.
UniformLess(s, alpha) == PLt(Pos(UniformOf(s), 0), alpha)

\* A faulty recording that writes nothing on a rejection, leaving the row of
\* zeros np.zeros allocated.
RecordedSkipsRejected(accept, proposed, current) ==
    IF accept THEN proposed ELSE VZeros(Len(current))

\* The row written at the end of an iteration: the proposal when it is
\* accepted, a copy of the current row otherwise.
Recorded(accept, proposed, current) == IF accept THEN proposed ELSE current

\* ------------------------------------------------------------------------
\* HamiltonianMC
\* ------------------------------------------------------------------------

Half == Fin(Scale \div 2)

\* hamiltonian(q, p) = -log_density(q) + 0.5 * sum(p ** 2)
hamiltonian(target, q, p) ==
    XAdd(XNeg(log_density(target, q)), XMul(Half, Dot(p, p)))

RECURSIVE LeapfrogLoop(_, _, _, _)
\* n passes of the loop of HamiltonianMC.leapfrog from state st = [q, p,
\* raised, ngrad, npos].
LeapfrogLoop(target, eps, st, n) ==
    IF n <= 0 \/ st.raised THEN st
    ELSE LET q1 == VAdd(st.q, VScale(eps, st.p))
         IN  IF TargetRaises(target, q1)
             THEN [st EXCEPT !.q = q1, !.raised = TRUE, !.npos = @ + 1]
             ELSE LeapfrogLoop(target, eps,
                    [q |-> q1,
                     p |-> VAdd(st.p, VScale(eps, grad_log_density(target, q1))),
                     raised |-> FALSE,
                     ngrad |-> st.ngrad + 1,
                     npos |-> st.npos + 1],
                    n - 1)

\* A faulty leapfrog that does not negate the momentum at its end.
HMC_leapfrogNoNegate(target, eps, L, q, p) ==
    IF TargetRaises(target, q)
    THEN [q |-> q, p |-> p, raised |-> TRUE, ngrad |-> 0, npos |-> 0]
    ELSE
    LET p1 == VAdd(p, VScale(XMul(Half, eps), grad_log_density(target, q)))
        mid == LeapfrogLoop(target, eps,
                 [q |-> q, p |-> p1, raised |-> FALSE, ngrad |-> 1, npos |-> 0],
                 L - 1)
        q2 == VAdd(mid.q, VScale(eps, mid.p))
    IN  IF mid.raised THEN mid
        ELSE IF TargetRaises(target, q2)
        THEN [mid EXCEPT !.q = q2, !.raised = TRUE, !.npos = @ + 1]
        ELSE [q |-> q2,
              p |-> VAdd(mid.p, VScale(XMul(Half, eps), grad_log_density(target, q2))),
              raised |-> FALSE,
              ngrad |-> mid.ngrad + 1,
              npos |-> mid.npos + 1]

\* HamiltonianMC.leapfrog(q, p) with step size eps and L steps: the new
\* [q, p], whether grad_log_density raised, and the numbers of gradient
\* evaluations and position updates made.
HMC_leapfrog(target, eps, L, q, p) ==
    IF TargetRaises(target, q)
    THEN [q |-> q, p |-> p, raised |-> TRUE, ngrad |-> 0, npos |-> 0]
    ELSE
    LET p1 == VAdd(p, VScale(XMul(Half, eps), grad_log_density(target, q)))
        mid == LeapfrogLoop(target, eps,
                 [q |-> q, p |-> p1, raised |-> FALSE, ngrad |-> 1, npos |-> 0],
                 L - 1)
        q2 == VAdd(mid.q, VScale(eps, mid.p))
    IN  IF mid.raised THEN mid
        ELSE IF TargetRaises(target, q2)
        THEN [mid EXCEPT !.q = q2, !.raised = TRUE, !.npos = @ + 1]
        ELSE [q |-> q2,
              p |-> VNeg(VAdd(mid.p, VScale(XMul(Half, eps), grad_log_density(target, q2)))),
              raised |-> FALSE,
              ngrad |-> mid.ngrad + 1,
              npos |-> mid.npos + 1]

\* ------------------------------------------------------------------------
\* NUTS
\* ------------------------------------------------------------------------

\* NUTS.leapfrog(q, p, epsilon): one step; [q, p, raised].
NUTS_leapfrog(target, q, p, epsilon) ==
    IF TargetRaises(target, q) THEN [q |-> q, p |-> p, raised |-> TRUE]
    ELSE
    LET p1 == VAdd(p, VScale(XMul(Half, epsilon), grad_log_density(target, q)))
        q1 == VAdd(q, VScale(epsilon, p1))
    IN  IF TargetRaises(target, q1) THEN [q |-> q1, p |-> p1, raised |-> TRUE]
        ELSE [q |-> q1,
              p |-> VAdd(p1, VScale(XMul(Half, epsilon), grad_log_density(target, q1))),
              raised |-> FALSE]

\* 1000 * log(2), rounded down.
Log2Milli == 693

\* x > c / 1000 for a float x: false when x is NaN.
XGtMilli(x, c) ==
    IF x.t = "nan" THEN FALSE
    ELSE IF x.t = "inf" THEN x.v = 1
    ELSE x.v * 1000 > c * Scale

\* log_ratio = -hamiltonian(q, p_new) + hamiltonian(q, p) after one leapfrog
\* step of size epsilon from (q, p): [raised, log_ratio].
FRE_log_ratio(target, q, p, epsilon) ==
    LET lf == NUTS_leapfrog(target, q, p, epsilon)
    IN  IF lf.raised THEN [raised |-> TRUE, log_ratio |-> NaN]
        ELSE [raised |-> FALSE,
              log_ratio |-> XAdd(XNeg(hamiltonian(target, q, lf.p)),
                                 hamiltonian(target, q, p))]

RECURSIVE FRE_loop(_, _, _, _, _, _)
\* The while loop of find_reasonable_epsilon: [epsilon, raised].
FRE_loop(target, q, p, a, epsilon, log_ratio) ==
    IF XGtMilli(XMul(Num(a), log_ratio), -a * Log2Milli)
    THEN LET e2 == XMul(epsilon, IF a = 1 THEN Num(2) ELSE Half)
             r == FRE_log_ratio(target, q, p, e2)
         IN  IF r.raised THEN [epsilon |-> e2, raised |-> TRUE]
             ELSE FRE_loop(target, q, p, a, e2, r.log_ratio)
    ELSE [epsilon |-> epsilon, raised |-> FALSE]

\* find_reasonable_epsilon(q), the momentum drawn in generator state s:
\* [epsilon, raised]; the generator advances by Len(q) draws.
find_reasonable_epsilon(target, q, s) ==
    LET p == randn(s, Len(q))
        r == FRE_log_ratio(target, q, p, One)
        a == IF XGtMilli(r.log_ratio, -Log2Milli) THEN 1 ELSE -1
    IN  IF r.raised THEN [epsilon |-> One, raised |-> TRUE]
        ELSE FRE_loop(target, q, p, a, One, r.log_ratio)

\* The safety margin of the continue-flag of a leaf.
SafetyMargin == 1000

\* min(1, exp(x)) in thousandths, for the sums of the step-size adaptation.
AlphaMilli(a) ==
    IF a.t # "pos" THEN 1000
    ELSE IF a.m = 0 THEN 0
    ELSE IF a.e >= 0 THEN 1000
    ELSE LET i == (-a.e) * (2 ^ (3 - FracBits))
         IN  IF i > Len(ExpMicro) THEN 0 ELSE 1000000000 \div ExpMicro[i]

Max(a, b) == IF a >= b THEN a ELSE b

\* np.dot(x, p) >= 0
DotNonNeg(x, p) == XGe(Dot(x, p), Zero)

\* A faulty slice test that also takes a leaf on the boundary of the slice.
LeafValidOrEqual(u, H) == ~PLt(Exp(XNeg(H)), u)

\* u < np.exp(-H)
LeafValid(u, H) == PLt(u, Exp(XNeg(H)))

\* A faulty continuation test that never stops.
LeafContinuesAlways(u, H) == TRUE

\* u < np.exp(1000 - H)
LeafContinues(u, H) == PLt(u, Exp(XSub(Num(SafetyMargin), H)))

RECURSIVE build_tree(_, _, _, _, _)
\* build_tree(q, p, u, v, j, epsilon, q0, p0), with c = [target, u, v,
\* epsilon, q0, p0] and the generator in state s: the twelve values returned,
\* the generator's state afterwards, the number of leapfrog steps taken and
\* whether the target raised; q_last, p_last are the product of the last
\* leapfrog step taken.
build_tree(c, q, p, j, s) ==
    IF j = 0
    THEN LET lf == NUTS_leapfrog(c.target, q, p, XMul(Num(c.v), c.epsilon))
             H == hamiltonian(c.target, lf.q, lf.p)
             H0 == hamiltonian(c.target, c.q0, c.p0)
         IN  [q_new |-> lf.q, p_new |-> lf.p,
              q_fwd |-> lf.q, p_fwd |-> lf.p,
              q_bwd |-> lf.q, p_bwd |-> lf.p,
              q_prime |-> lf.q, p_prime |-> lf.p,
              n_prime |-> IF ~lf.raised /\ LeafValid(c.u, H) THEN 1 ELSE 0,
              s_prime |-> IF ~lf.raised /\ LeafContinues(c.u, H) THEN 1 ELSE 0,
              alpha_prime |-> IF lf.raised THEN 0
                              ELSE AlphaMilli(Min1(Exp(XAdd(XNeg(H), H0)))),
              n_alpha_prime |-> 1,
              rng |-> s, nleap |-> 1, q_last |-> lf.q, p_last |-> lf.p,
              raised |-> lf.raised]
    ELSE LET t1 == build_tree(c, q, p, j - 1, s)
         IN  IF t1.raised \/ t1.s_prime # 1 THEN t1
             ELSE
             LET t2 == IF c.v = -1
                       THEN build_tree(c, t1.q_bwd, t1.p_bwd, j - 1, t1.rng)
                       ELSE build_tree(c, t1.q_fwd, t1.p_fwd, j - 1, t1.rng)
                 q_bwd == IF c.v = -1 THEN t2.q_new ELSE t1.q_bwd
                 p_bwd == IF c.v = -1 THEN t2.p_new ELSE t1.p_bwd
                 q_fwd == IF c.v = -1 THEN t1.q_fwd ELSE t2.q_fwd
                 p_fwd == IF c.v = -1 THEN t1.p_fwd ELSE t2.p_fwd
                 take2 == UniformOf(t2.rng) * Max(t1.n_prime + t2.n_prime, 1)
                            < t2.n_prime * UDen
                 delta_fwd == VSub(q_fwd, q_bwd)
             IN  IF t2.raised
                 THEN [t2 EXCEPT !.nleap = t1.nleap + t2.nleap]
                 ELSE [q_new |-> t1.q_new, p_new |-> t1.p_new,
                       q_fwd |-> q_fwd, p_fwd |-> p_fwd,
                       q_bwd |-> q_bwd, p_bwd |-> p_bwd,
                       q_prime |-> IF take2 THEN t2.q_prime ELSE t1.q_prime,
                       p_prime |-> IF take2 THEN t2.p_prime ELSE t1.p_prime,
                       n_prime |-> t1.n_prime + t2.n_prime,
                       s_prime |-> IF t2.s_prime = 1 /\ DotNonNeg(delta_fwd, p_bwd)
                                      /\ DotNonNeg(delta_fwd, p_fwd)
                                   THEN 1 ELSE 0,
                       alpha_prime |-> t1.alpha_prime + t2.alpha_prime,
                       n_alpha_prime |-> t1.n_alpha_prime + t2.n_alpha_prime,
                       rng |-> RngNext(t2.rng),
                       nleap |-> t1.nleap + t2.nleap,
                       q_last |-> t2.q_last, p_last |-> t2.p_last,
                       raised |-> FALSE]

\* --- dual averaging: logarithms are floats held in thousandths ---

MFin(n) == [t |-> "fin", v |-> n]

MAdd(a, b) ==
    IF a.t = "nan" \/ b.t = "nan" THEN NaN
    ELSE IF a.t = "inf" /\ b.t = "inf" THEN (IF a.v = b.v THEN a ELSE NaN)
    ELSE IF a.t = "inf" THEN a
    ELSE IF b.t = "inf" THEN b
    ELSE MFin(a.v + b.v)

\* (w / 1000) * a
MScale(w, a) ==
    IF a.t = "nan" THEN NaN
    ELSE IF a.t = "inf" THEN (IF w = 0 THEN NaN ELSE [t |-> "inf", v |-> Sgn(w) * a.v])
    ELSE MFin(Trunc(w * a.v, 1000))

\* np.log(10 * epsilon) in thousandths, for epsilon a power of two, 0, inf or NaN.
LogTenEps(epsilon) ==
    IF epsilon.t = "nan" THEN NaN
    ELSE IF epsilon.t = "inf" THEN (IF epsilon.v = 1 THEN PInf ELSE NaN)
    ELSE IF epsilon.v < 0 THEN NaN
    ELSE IF epsilon.v = 0 THEN NInf
    ELSE LET k == CHOOSE k \in 0..30 : 2 ^ k <= epsilon.v /\ epsilon.v < 2 ^ (k + 1)
         IN  MFin(Trunc(2302585 + 693147 * (k - FracBits), 1000))

\* np.exp(x) as a float, x in thousandths.
ExpOfMilli(x) ==
    IF x.t = "nan" THEN NaN
    ELSE IF x.t = "inf" THEN (IF x.v = 1 THEN PInf ELSE Zero)
    ELSE IF x.v > ExpMax * 1000 THEN PInf
    ELSE IF x.v < -(ExpMin * 1000) THEN Zero
    ELSE LET i == Trunc(x.v * 8, 1000)
         IN  IF i = 0 THEN One
             ELSE IF i > 0 THEN Fin(((ExpMicro[i] \div 1000) * Scale) \div 1000)
             ELSE Fin((Scale * 1000000) \div ExpMicro[-i])

\* floor(1000 * sqrt(m)) and floor(1000 * m ** (-kappa)), kappa = 0.75, m = 1 .. 8.
SqrtMilli == << 1000, 1414, 1732, 2000, 2236, 2449, 2645, 2828 >>
KappaWeightMilli == << 1000, 594, 438, 353, 299, 260, 232, 210 >>
\* 1 / gamma, gamma = 0.05
InvGamma == 20
t0 == 10
max_tree_depth == 10

\* A faulty loop condition that fails before the first doubling:
\* while s == 1 and 0 < j < max_tree_depth.
ContinueAfterFirst(s, j) == s = 1 /\ 0 < j /\ j < max_tree_depth

\* A faulty loop condition without the depth cap: while s == 1.
ContinueWithoutCap(s, j) == s = 1

\* The condition of the doubling loop: while s == 1 and j < max_tree_depth.
ContinueDoubling(s, j) == s = 1 /\ j < max_tree_depth

\* One pass of the dual averaging of iteration m: the new [H_bar, epsilon,
\* log_epsilon_bar], from the last subtree's alpha and n_alpha.
DualAverage(m, mu, delta, H_bar, log_epsilon_bar, alpha, n_alpha) ==
    LET H1 == Trunc((m + t0 - 1) * H_bar + (delta - alpha \div n_alpha), m + t0)
        log_epsilon == MAdd(mu, MFin(-Trunc(InvGamma * SqrtMilli[m] * H1, 1000)))
        w == KappaWeightMilli[m]
    IN  [H_bar |-> H1,
         epsilon |-> ExpOfMilli(log_epsilon),
         log_epsilon_bar |-> MAdd(MScale(w, log_epsilon), MScale(1000 - w, log_epsilon_bar))]

\* ------------------------------------------------------------------------
\* The state machine: one sampler instance and one call of sample()
\* ------------------------------------------------------------------------

\* Largest n_samples, burn_in and thin of a call, and the number of seeds.
MaxN == 2
MaxBurn == 1
MaxThin == 2
NSeeds == 6

VARIABLES
    kind,    \* the sampler's class
    cfg,     \* the constructor's and sample()'s arguments
    inst,    \* the instance's attributes
    pc,      \* "new", "loop", "tree" (inside a NUTS iteration), "done", "raised"
    fr,      \* the locals of the running sample()
    rng,     \* np.random's state
    exc,     \* the exception sample() raised to its caller
    ret,     \* the value sample() returned
    hist,    \* history: what the call has done so far
    aux      \* the state of the two auxiliary specifications

vars == << kind, cfg, inst, pc, fr, rng, exc, ret, hist, aux >>

Kinds == {"MH", "HMC", "NUTS"}

InitialStates == { << Zero >>, << One >>, << Num(-2) >>, << Zero, One >> }

\* The arguments of the constructor and of sample(), valid and invalid.
Configs(k) ==
    [ target : Targets,
      initial_state : InitialStates,
      n_samples : IF k = "NUTS" THEN 1..(MaxN + 1) ELSE 1..MaxN,
      burn_in : 0..MaxBurn,
      thin : IF k = "NUTS" THEN {1} ELSE (-1)..MaxThin,
      proposal_std : IF k = "MH" THEN {Num(-1), Zero, One, Num(2)} ELSE {One},
      epsilon : IF k = "HMC" THEN {XNeg(Half), Half, One} ELSE {One},
      L : IF k = "HMC" THEN {0, 2} ELSE {1},
      delta : {600},
      adapt_steps : IF k = "NUTS" THEN {0, 1, 2} ELSE {0} ]

NoFrame ==
    [ total |-> 0, all_samples |-> <<>>, accepted |-> 0, i |-> 0,
      epsilon |-> Zero, mu |-> Zero, H_bar |-> 0, log_epsilon_bar |-> Zero,
      p |-> <<>>, u |-> PZero,
      q_fwd |-> <<>>, p_fwd |-> <<>>, q_bwd |-> <<>>, p_bwd |-> <<>>,
      q_new |-> <<>>, j |-> 0, n |-> 0, s |-> 0, alpha |-> 0, n_alpha |-> 0 ]

\* What is remembered of the latest doubling: its direction, j, n and q_new
\* before it, the subtree's flag, count and proposal, the uniform draw of the
\* acceptance test, the last state the subtree integrated, and whether the
\* stored endpoints were the outermost states before it.
NoDoubling ==
    [ v |-> 0, j |-> 0, n |-> 0, q_new |-> <<>>, s_prime |-> 0, n_prime |-> 0,
      q_prime |-> <<>>, p_prime |-> <<>>, draw |-> 0, q_last |-> <<>>,
      p_last |-> <<>>, exact |-> FALSE ]

\* The outermost states of the trajectory of the current iteration.
NoOuter == [ q_bwd |-> <<>>, p_bwd |-> <<>>, q_fwd |-> <<>>, p_fwd |-> <<>> ]

NoHist ==
    [ writes |-> <<>>, trace |-> <<>>, decisions |-> 0,
      nleap |-> 0, lastleap |-> 0, lastj |-> 0, doublings |-> 0,
      adopted |-> FALSE, target_raised |-> FALSE, seed |-> 0,
      dbl |-> NoDoubling, outer |-> NoOuter ]

Init ==
    /\ kind \in Kinds
    /\ cfg \in Configs(kind)
    /\ inst = [ samples |-> None, acceptance_rate |-> None,
                epsilon |-> cfg.epsilon, epsilon_history |-> <<>> ]
    /\ pc = "new"
    /\ fr = NoFrame
    /\ rng \in 0..(NSeeds - 1)
    /\ exc = NoExc
    /\ ret = None
    /\ hist = [NoHist EXCEPT !.seed = rng]
    /\ aux = 0

dim == Len(cfg.initial_state)

\* A faulty total that allocates one row more.
TotalIterationsPlusOne ==
    IF kind = "NUTS" THEN cfg.burn_in + cfg.n_samples + 1
    ELSE cfg.burn_in + cfg.n_samples * cfg.thin + 1

\* total_iterations
TotalIterations ==
    IF kind = "NUTS" THEN cfg.burn_in + cfg.n_samples
    ELSE cfg.burn_in + cfg.n_samples * cfg.thin

\* A faulty handler that catches e and raises a RuntimeError in its place.
RaiseConverted(e) ==
    /\ pc' = "raised"
    /\ exc' = NumpyError("RuntimeError")
    /\ fr' = NoFrame

\* sample() raises e to its caller: its frame is gone.
Raise(e) ==
    /\ pc' = "raised"
    /\ exc' = e
    /\ fr' = NoFrame

\* The target raised inside sample(): nothing catches it.
RaiseFromTarget ==
    /\ Raise(TargetError)
    /\ hist' = [hist EXCEPT !.target_raised = TRUE]

\* all_samples = np.zeros((total, dim)); all_samples[0] = initial_state
Allocate(total) ==
    [k \in 1..total |-> IF k = 1 THEN cfg.initial_state ELSE VZeros(dim)]

\* MetropolisHastings.sample and HamiltonianMC.sample up to their loop.
SampleStart ==
    /\ pc = "new"
    /\ kind \in {"MH", "HMC"}
    /\ UNCHANGED << kind, cfg, inst, rng, ret, aux >>
    /\ IF TotalIterations < 0
       THEN Raise(NumpyError("ValueError")) /\ UNCHANGED hist
       ELSE IF TotalIterations = 0
       THEN Raise(NumpyError("IndexError")) /\ UNCHANGED hist
       ELSE /\ pc' = "loop"
            /\ fr' = [NoFrame EXCEPT !.total = TotalIterations,
                                     !.all_samples = Allocate(TotalIterations),
                                     !.i = 1]
            /\ hist' = [hist EXCEPT !.writes = << 0 >>]
            /\ UNCHANGED exc

\* One pass of the loop of MetropolisHastings.sample.
MH_Iterate ==
    /\ pc = "loop"
    /\ kind = "MH"
    /\ fr.i < fr.total
    /\ UNCHANGED << kind, cfg, inst, ret, aux >>
    /\ LET current == fr.all_samples[fr.i]
           proposed == propose(cfg.proposal_std, current, rng)
           rng1 == RngSkip(rng, dim)
           alpha == acceptance_probability(cfg.target, current, proposed)
           accept == UniformLess(rng1, alpha)
       IN  IF XLt(cfg.proposal_std, Zero)
           THEN Raise(NumpyError("ValueError")) /\ UNCHANGED << rng, hist >>
           ELSE IF TargetRaises(cfg.target, proposed) \/ TargetRaises(cfg.target, current)
           THEN RaiseFromTarget /\ rng' = rng1
           ELSE /\ rng' = RngNext(rng1)
                /\ fr' = [fr EXCEPT !.all_samples[fr.i + 1] =
                                        Recorded(accept, proposed, current),
                                    !.accepted = IF accept THEN @ + 1 ELSE @,
                                    !.i = @ + 1]
                /\ hist' = [hist EXCEPT
                              !.writes = Append(@, fr.i),
                              !.decisions = @ + 1,
                              !.trace = Append(@, [proposed |-> proposed,
                                                   current |-> current,
                                                   draw |-> Pos(UniformOf(rng1), 0),
                                                   accept |-> accept,
                                                   alpha |-> alpha,
                                                   from |-> log_density(cfg.target, current),
                                                   to |-> log_density(cfg.target, proposed)])]
                /\ UNCHANGED << pc, exc >>

\* One pass of the loop of HamiltonianMC.sample.
HMC_Iterate ==
    /\ pc = "loop"
    /\ kind = "HMC"
    /\ fr.i < fr.total
    /\ UNCHANGED << kind, cfg, inst, ret, aux >>
    /\ LET q_current == fr.all_samples[fr.i]
           p_current == randn(rng, dim)
           rng1 == RngSkip(rng, dim)
           H_current == hamiltonian(cfg.target, q_current, p_current)
           lf == HMC_leapfrog(cfg.target, inst.epsilon, cfg.L, q_current, p_current)
           H_proposed == hamiltonian(cfg.target, lf.q, lf.p)
           log_accept_ratio == XAdd(XNeg(H_proposed), H_current)
           accept_prob == Min1(Exp(log_accept_ratio))
           accept == UniformLess(rng1, accept_prob)
       IN  IF TargetRaises(cfg.target, q_current) \/ lf.raised
           THEN RaiseFromTarget /\ rng' = rng1
           ELSE /\ rng' = RngNext(rng1)
                /\ fr' = [fr EXCEPT !.all_samples[fr.i + 1] =
                                        Recorded(accept, lf.q, q_current),
                                    !.accepted = IF accept THEN @ + 1 ELSE @,
                                    !.i = @ + 1]
                /\ hist' = [hist EXCEPT
                              !.writes = Append(@, fr.i),
                              !.decisions = @ + 1,
                              !.trace = Append(@, [proposed |-> lf.q,
                                                   accept |-> accept,
                                                   alpha |-> accept_prob,
                                                   from |-> H_current,
                                                   to |-> H_proposed])]
                /\ UNCHANGED << pc, exc >>

\* A faulty rate that divides by the number of decisions taken.
RateOverDecisions(accepted, total) == [num |-> accepted, den |-> total - 1]

\* accepted / total_iterations
Rate(accepted, total) == [num |-> accepted, den |-> total]

\* The end of MetropolisHastings.sample and of HamiltonianMC.sample.
Finish ==
    /\ pc = "loop"
    /\ kind \in {"MH", "HMC"}
    /\ fr.i >= fr.total
    /\ UNCHANGED << kind, cfg, rng, hist, aux >>
    /\ IF cfg.thin = 0
       THEN /\ Raise(NumpyError("ValueError"))
            /\ inst' = [inst EXCEPT !.acceptance_rate = Some(Rate(fr.accepted, fr.total))]
            /\ UNCHANGED ret
       ELSE /\ inst' = [inst EXCEPT
                          !.acceptance_rate = Some(Rate(fr.accepted, fr.total)),
                          !.samples = Some(Slice(fr.all_samples, cfg.burn_in, cfg.thin))]
            /\ ret' = Some(Slice(fr.all_samples, cfg.burn_in, cfg.thin))
            /\ pc' = "done"
            /\ UNCHANGED << fr, exc >>

\* NUTS.sample up to its loop.
NUTS_Start ==
    /\ pc = "new"
    /\ kind = "NUTS"
    /\ UNCHANGED << kind, cfg, ret, aux >>
    /\ rng' = RngSkip(rng, dim)
    /\ \E fre \in {find_reasonable_epsilon(cfg.target, cfg.initial_state, rng)} :
           IF fre.raised
           THEN RaiseFromTarget /\ UNCHANGED inst
           ELSE /\ pc' = "loop"
                /\ fr' = [NoFrame EXCEPT !.total = TotalIterations,
                                         !.all_samples = Allocate(TotalIterations),
                                         !.i = 1,
                                         !.epsilon = fre.epsilon,
                                         !.mu = LogTenEps(fre.epsilon),
                                         !.log_epsilon_bar = MFin(0),
                                         !.H_bar = 0]
                /\ inst' = [inst EXCEPT !.epsilon_history = << fre.epsilon >>]
                /\ hist' = [hist EXCEPT !.writes = << 0 >>]
                /\ UNCHANGED exc

\* The head of one pass of the loop of NUTS.sample: the momentum, the slice
\* variable and the one-node tree.
NUTS_IterStart ==
    /\ pc = "loop"
    /\ kind = "NUTS"
    /\ fr.i < fr.total
    /\ UNCHANGED << kind, cfg, inst, ret, aux >>
    /\ LET q == fr.all_samples[fr.i]
           p == randn(rng, dim)
           rng1 == RngSkip(rng, dim)
           high == Exp(XNeg(hamiltonian(cfg.target, q, p)))
       IN  IF TargetRaises(cfg.target, q)
           THEN RaiseFromTarget /\ rng' = rng1
           ELSE IF high.t # "pos"
           THEN Raise(NumpyError("OverflowError")) /\ rng' = rng1 /\ UNCHANGED hist
           ELSE /\ rng' = RngNext(rng1)
                /\ pc' = "tree"
                /\ fr' = [fr EXCEPT !.p = p,
                                    !.u = IF high.m = 0 THEN PZero
                                          ELSE Pos(UniformOf(rng1), high.e),
                                    !.q_fwd = q, !.q_bwd = q, !.q_new = q,
                                    !.p_fwd = p, !.p_bwd = p,
                                    !.j = 0, !.n = 1, !.s = 1]
                /\ hist' = [hist EXCEPT !.nleap = 0, !.doublings = 0,
                                        !.adopted = FALSE,
                                        !.dbl = NoDoubling,
                                        !.outer = [ q_bwd |-> q, p_bwd |-> p,
                                                    q_fwd |-> q, p_fwd |-> p ]]
                /\ UNCHANGED exc

\* The acceptance test of NUTS.sample without the draw: every proposal of a
\* subtree whose flag is 1 is adopted.
TakeProposalWhenContinuing(s_prime, n_prime, n, draw) == s_prime = 1

\* if s_prime == 1: if np.random.rand() < min(1, n_prime / n), for the draw
\* draw / UDen.
TakeProposal(s_prime, n_prime, n, draw) ==
    /\ s_prime = 1
    /\ (n_prime >= n \/ draw * n < n_prime * UDen)

\* One pass of the doubling loop of NUTS.sample.
NUTS_Double ==
    /\ pc = "tree"
    /\ ContinueDoubling(fr.s, fr.j)
    /\ UNCHANGED << kind, cfg, inst, ret, aux >>
    /\ \E v \in {IF 2 * UniformOf(rng) < UDen THEN 1 ELSE -1} :
       \E t \in {build_tree([target |-> cfg.target, u |-> fr.u, v |-> v,
                             epsilon |-> fr.epsilon,
                             q0 |-> fr.all_samples[fr.i], p0 |-> fr.p],
                            IF v = -1 THEN fr.q_bwd ELSE fr.q_fwd,
                            IF v = -1 THEN fr.p_bwd ELSE fr.p_fwd,
                            fr.j, RngNext(rng))} :
       LET q_bwd == IF v = -1 THEN t.q_new ELSE fr.q_bwd
           p_bwd == IF v = -1 THEN t.p_new ELSE fr.p_bwd
           q_fwd == IF v = -1 THEN fr.q_fwd ELSE t.q_fwd
           p_fwd == IF v = -1 THEN fr.p_fwd ELSE t.p_fwd
           take == TakeProposal(t.s_prime, t.n_prime, fr.n, UniformOf(t.rng))
           delta == VSub(q_fwd, q_bwd)
       IN  IF t.raised
           THEN RaiseFromTarget /\ rng' = t.rng
           ELSE /\ rng' = IF t.s_prime = 1 THEN RngNext(t.rng) ELSE t.rng
                /\ fr' = [fr EXCEPT
                            !.q_bwd = q_bwd, !.p_bwd = p_bwd,
                            !.q_fwd = q_fwd, !.p_fwd = p_fwd,
                            !.q_new = IF take THEN t.q_prime ELSE @,
                            !.accepted = IF take THEN @ + 1 ELSE @,
                            !.n = @ + t.n_prime,
                            !.s = IF t.s_prime = 1 /\ DotNonNeg(delta, p_bwd)
                                     /\ DotNonNeg(delta, p_fwd)
                                  THEN 1 ELSE 0,
                            !.j = @ + 1,
                            !.alpha = t.alpha_prime,
                            !.n_alpha = t.n_alpha_prime]
                /\ hist' = [hist EXCEPT !.nleap = @ + t.nleap,
                                        !.lastleap = t.nleap,
                                        !.lastj = fr.j,
                                        !.doublings = @ + 1,
                                        !.adopted = @ \/ take,
                                        !.dbl = [ v |-> v, j |-> fr.j, n |-> fr.n,
                                                  q_new |-> fr.q_new,
                                                  s_prime |-> t.s_prime,
                                                  n_prime |-> t.n_prime,
                                                  q_prime |-> t.q_prime,
                                                  p_prime |-> t.p_prime,
                                                  draw |-> UniformOf(t.rng),
                                                  q_last |-> t.q_last,
                                                  p_last |-> t.p_last,
                                                  exact |-> hist.outer =
                                                    [ q_bwd |-> fr.q_bwd,
                                                      p_bwd |-> fr.p_bwd,
                                                      q_fwd |-> fr.q_fwd,
                                                      p_fwd |-> fr.p_fwd ] ],
                                        !.outer = IF v = -1
                                                  THEN [@ EXCEPT !.q_bwd = t.q_last,
                                                                 !.p_bwd = t.p_last]
                                                  ELSE [@ EXCEPT !.q_fwd = t.q_last,
                                                                 !.p_fwd = t.p_last]]
                /\ UNCHANGED << pc, exc >>

\* The tail of one pass of the loop of NUTS.sample: the chain row and the
\* step-size adaptation.
NUTS_IterEnd ==
    /\ pc = "tree"
    /\ ~ContinueDoubling(fr.s, fr.j)
    /\ UNCHANGED << kind, cfg, rng, ret, exc, aux >>
    /\ pc' = "loop"
    /\ \E m \in {fr.i} :
       \E da \in {DualAverage(m, fr.mu, cfg.delta, fr.H_bar, fr.log_epsilon_bar,
                              fr.alpha, fr.n_alpha)} :
           /\ IF m <= cfg.adapt_steps
              THEN /\ fr' = [fr EXCEPT !.all_samples[m + 1] = fr.q_new,
                                       !.H_bar = da.H_bar,
                                       !.epsilon = da.epsilon,
                                       !.log_epsilon_bar = da.log_epsilon_bar,
                                       !.i = @ + 1]
                   /\ inst' = [inst EXCEPT !.epsilon_history = Append(@, da.epsilon)]
              ELSE /\ fr' = [fr EXCEPT !.all_samples[m + 1] = fr.q_new,
                                       !.epsilon = ExpOfMilli(fr.log_epsilon_bar),
                                       !.i = @ + 1]
                   /\ UNCHANGED inst
           /\ hist' = [hist EXCEPT
                         !.writes = Append(@, m),
                         !.decisions = @ + 1,
                         !.trace = Append(@, [proposed |-> fr.q_new,
                                              accept |-> hist.adopted,
                                              alpha |-> PZero,
                                              from |-> Zero,
                                              to |-> Zero])]

\* A faulty end of NUTS.sample that leaves self.epsilon as it was.
NUTS_FinishKeepsEpsilon ==
    /\ pc = "loop"
    /\ kind = "NUTS"
    /\ fr.i >= fr.total
    /\ UNCHANGED << kind, cfg, rng, hist, exc, fr, aux >>
    /\ inst' = [inst EXCEPT
                  !.acceptance_rate = Some(Rate(fr.accepted, fr.total)),
                  !.samples = Some(Slice(fr.all_samples, cfg.burn_in, 1))]
    /\ ret' = Some(Slice(fr.all_samples, cfg.burn_in, 1))
    /\ pc' = "done"

\* The end of NUTS.sample.
NUTS_Finish ==
    /\ pc = "loop"
    /\ kind = "NUTS"
    /\ fr.i >= fr.total
    /\ UNCHANGED << kind, cfg, rng, hist, exc, fr, aux >>
    /\ inst' = [inst EXCEPT
                  !.acceptance_rate = Some(Rate(fr.accepted, fr.total)),
                  !.samples = Some(Slice(fr.all_samples, cfg.burn_in, 1)),
                  !.epsilon = ExpOfMilli(fr.log_epsilon_bar)]
    /\ ret' = Some(Slice(fr.all_samples, cfg.burn_in, 1))
    /\ pc' = "done"

Next ==
    \/ SampleStart
    \/ MH_Iterate
    \/ HMC_Iterate
    \/ Finish
    \/ NUTS_Start
    \/ NUTS_IterStart
    \/ NUTS_Double
    \/ NUTS_IterEnd
    \/ NUTS_Finish

Spec == Init /\ [][Next]_vars

\* ------------------------------------------------------------------------
\* The leapfrog integrators as pure functions
\* ------------------------------------------------------------------------

\* Largest number of leapfrog steps L.
MaxL == 3

LeapTargets == {"gauss", "flat", "quartic"}
LeapVals == { Fin(k * (Scale \div 2)) : k \in {-3, -1, 0, 2, 4} }
LeapVectors == { << x >> : x \in LeapVals } \cup { << Zero, One >>, << One, XNeg(Half) >> }
LeapEps == { Fin(Scale \div 4), Half, One, XNeg(Half), Fin(3 * (Scale \div 2)) }
NoPair == << <<>>, <<>> >>

\* The fixed values of the sampler's variables where only aux matters.
Idle ==
    /\ kind = "MH"
    /\ cfg = [ target |-> "gauss", initial_state |-> << Zero >>, n_samples |-> 1,
               burn_in |-> 0, thin |-> 1, proposal_std |-> One, epsilon |-> One,
               L |-> 1, delta |-> 600, adapt_steps |-> 0 ]
    /\ inst = [ samples |-> None, acceptance_rate |-> None,
                epsilon |-> One, epsilon_history |-> <<>> ]
    /\ pc = "idle"
    /\ fr = NoFrame
    /\ exc = NoExc
    /\ ret = None

InitLeapfrog ==
    /\ Idle
    /\ rng = 0
    /\ hist = NoHist
    /\ aux \in { a \in [ stage : {"in"}, target : LeapTargets, q : LeapVectors,
                         p : LeapVectors, eps : LeapEps, L : 1..MaxL,
                         fwd : {NoPair}, back : {NoPair}, back2 : {NoPair},
                         exact : {FALSE}, ngrad : {0}, npos : {0} ] :
                 Len(a.q) = Len(a.p) }

\* HamiltonianMC.leapfrog applied to (q, p) and then to its own result.
LeapfrogTwice ==
    /\ aux.stage = "in"
    /\ \E f \in {HMC_leapfrog(aux.target, aux.eps, aux.L, aux.q, aux.p)} :
       \E b \in {HMC_leapfrog(aux.target, aux.eps, aux.L, f.q, f.p)} :
           aux' = [aux EXCEPT !.stage = "hmc",
                              !.fwd = << f.q, f.p >>,
                              !.back = << b.q, b.p >>,
                              !.back2 = << b.q, b.p >>,
                              !.ngrad = f.ngrad,
                              !.npos = f.npos,
                              !.exact = ~f.raised /\ VFinite(f.q) /\ VFinite(f.p)]
    /\ UNCHANGED << kind, cfg, inst, pc, fr, rng, exc, ret, hist >>

\* NUTS.leapfrog with +epsilon and then with -epsilon; and, from the same
\* forward step, with the momentum negated before and after a second step.
LeapfrogForthAndBack ==
    /\ aux.stage = "in"
    /\ \E f \in {NUTS_leapfrog(aux.target, aux.q, aux.p, aux.eps)} :
       \E b \in {NUTS_leapfrog(aux.target, f.q, f.p, XNeg(aux.eps))} :
       \E n \in {NUTS_leapfrog(aux.target, f.q, VNeg(f.p), aux.eps)} :
           aux' = [aux EXCEPT !.stage = "nuts",
                              !.fwd = << f.q, f.p >>,
                              !.back = << b.q, b.p >>,
                              !.back2 = << n.q, VNeg(n.p) >>,
                              !.exact = ~f.raised /\ VFinite(f.q) /\ VFinite(f.p)]
    /\ UNCHANGED << kind, cfg, inst, pc, fr, rng, exc, ret, hist >>

NextLeapfrog ==
    \/ LeapfrogTwice
    \/ LeapfrogForthAndBack

SpecLeapfrog == InitLeapfrog /\ [][NextLeapfrog]_vars

\* ------------------------------------------------------------------------
\* Two MetropolisHastings instances in one process
\* ------------------------------------------------------------------------

\* Largest number of iterations of each of the two instances.
MaxSharedSteps == 3

\* One pass of the loop of MetropolisHastings.sample from row current, the
\* generator in state s: the row written and the generator's state afterwards.
MH_step(target, std, current, s) ==
    LET proposed == propose(std, current, s)
        s1 == RngSkip(s, Len(current))
        accept == UniformLess(s1, acceptance_probability(target, current, proposed))
    IN  [ row |-> Recorded(accept, proposed, current), rng |-> RngNext(s1) ]

\* An instance's chain so far; and, beside it, the chain and the generator
\* of the same instance run alone from the same seed.
SharedInstance(x0, seed) ==
    [ chain |-> << x0 >>, solo |-> << x0 >>, solo_rng |-> seed ]

InitShared ==
    /\ kind = "MH"
    /\ cfg \in [ target : {"gauss", "flat"}, initial_state : { << Zero >>, << One >> },
                 n_samples : {MaxSharedSteps + 1}, burn_in : {0}, thin : {1},
                 proposal_std : {One}, epsilon : {One}, L : {1}, delta : {600},
                 adapt_steps : {0} ]
    /\ inst = [ samples |-> None, acceptance_rate |-> None,
                epsilon |-> One, epsilon_history |-> <<>> ]
    /\ pc = "shared"
    /\ fr = NoFrame
    /\ exc = NoExc
    /\ ret = None
    /\ rng \in 0..(NSeeds - 1)
    /\ hist = [NoHist EXCEPT !.seed = rng]
    /\ aux = [ a |-> SharedInstance(cfg.initial_state, rng),
               b |-> SharedInstance(cfg.initial_state, rng) ]

\* One iteration of instance who, drawing from np.random.
SharedStep(who) ==
    /\ pc = "shared"
    /\ Len(aux[who].chain) <= MaxSharedSteps
    /\ \E r \in {MH_step(cfg.target, cfg.proposal_std,
                         aux[who].chain[Len(aux[who].chain)], rng)} :
       \E g \in {MH_step(cfg.target, cfg.proposal_std,
                         aux[who].solo[Len(aux[who].solo)], aux[who].solo_rng)} :
           /\ rng' = r.rng
           /\ aux' = [aux EXCEPT ![who] = [ chain |-> Append(@.chain, r.row),
                                            solo |-> Append(@.solo, g.row),
                                            solo_rng |-> g.rng ]]
    /\ UNCHANGED << kind, cfg, inst, pc, fr, exc, ret, hist >>

SharedStepA == SharedStep("a")
SharedStepB == SharedStep("b")

NextShared ==
    \/ SharedStepA
    \/ SharedStepB

SpecShared == InitShared /\ [][NextShared]_vars

\* ------------------------------------------------------------------------
\* Properties
\* ------------------------------------------------------------------------

\* The thinning interval of the final slice (NUTS slices with step 1).
ThinOf == IF kind = "NUTS" THEN 1 ELSE cfg.thin

Returned == pc = "done"
Running == pc \in {"loop", "tree", "done"}

\* C1: a sample() that returns, called with thin >= 1 (1 for NUTS), returns
\* exactly n_samples rows of dimension len(initial_state), and row k of the
\* result is row burn_in + k * thin of the internal chain, whose length is
\* burn_in + n_samples * thin.
C1_ReturnedShape ==
    (Returned /\ ThinOf >= 1) =>
        /\ ret.set
        /\ inst.samples = ret
        /\ Len(fr.all_samples) = cfg.burn_in + cfg.n_samples * ThinOf
        /\ Len(ret.val) = cfg.n_samples
        /\ \A k \in 0..(cfg.n_samples - 1) :
              /\ Len(ret.val[k + 1]) = Len(cfg.initial_state)
              /\ ret.val[k + 1] = fr.all_samples[cfg.burn_in + k * ThinOf + 1]

\* C1, reached: a run with burn_in = 1, thin = 2 and n_samples = 2 has
\* returned two different rows.
C1_Witness ==
    /\ Returned
    /\ kind = "MH"
    /\ cfg.burn_in = 1 /\ cfg.thin = 2 /\ cfg.n_samples = 2
    /\ ret.val[1] # ret.val[2]
    /\ ret.val[1] # fr.all_samples[1]

\* C2: while sample() runs, row 0 is initial_state, the rows written so far
\* are rows 0, 1, 2, ... each written once and in this order, every row
\* i >= 1 is the state proposed at iteration i when it was accepted and a
\* copy of row i - 1 otherwise, and at the end as many rows are written as
\* there are iterations.
C2_ChainRecorded ==
    Running =>
        /\ Len(fr.all_samples) = TotalIterations
        /\ fr.all_samples[1] = cfg.initial_state
        /\ Len(hist.writes) = fr.i
        /\ \A k \in 1..Len(hist.writes) : hist.writes[k] = k - 1
        /\ Len(hist.trace) = fr.i - 1
        /\ \A i \in 1..Len(hist.trace) :
              fr.all_samples[i + 1] = IF hist.trace[i].accept
                                      THEN hist.trace[i].proposed
                                      ELSE fr.all_samples[i]
        /\ Returned => Len(hist.writes) = TotalIterations

\* C2, reached: a finished run that accepted a proposal which moved the
\* chain, and rejected one from a row that is not all zeros.
C2_Witness ==
    /\ Returned
    /\ \E i \in 1..Len(hist.trace) :
          hist.trace[i].accept /\ fr.all_samples[i + 1] # fr.all_samples[i]
    /\ \E i \in 1..Len(hist.trace) :
          /\ ~hist.trace[i].accept
          /\ hist.trace[i].proposed # fr.all_samples[i]
          /\ fr.all_samples[i] # VZeros(Len(cfg.initial_state))

\* C3, as stated: in MetropolisHastings, a proposal whose log density is NaN
\* or -inf has acceptance probability 0 and is rejected, the chain
\* duplicating the current state.
C3_NonFiniteRejected ==
    (kind = "MH" /\ Running) =>
        \A i \in 1..Len(hist.trace) :
            (IsNaN(hist.trace[i].to) \/ hist.trace[i].to = NInf) =>
                /\ hist.trace[i].alpha = PZero
                /\ ~hist.trace[i].accept
                /\ fr.all_samples[i + 1] = fr.all_samples[i]

\* C4, as stated: in HamiltonianMC.sample, a proposal whose H_proposed is
\* not finite has acceptance probability 0 and the chain duplicates the
\* previous state.
C4_DivergenceRejected ==
    (kind = "HMC" /\ Running) =>
        \A i \in 1..Len(hist.trace) :
            ~IsFinite(hist.trace[i].to) =>
                /\ hist.trace[i].alpha = PZero
                /\ ~hist.trace[i].accept
                /\ fr.all_samples[i + 1] = fr.all_samples[i]

\* The last build_tree(depth j) took at most 2^j leapfrog steps, and the
\* doubling loop has run at most max_tree_depth times, j never beyond it.
TreeBounded ==
    /\ hist.lastleap <= 2 ^ hist.lastj
    /\ fr.j <= max_tree_depth
    /\ hist.doublings <= max_tree_depth
    /\ pc = "tree" => hist.doublings = fr.j

\* A NUTS iteration at the depth cap ends in its next step, writing its row
\* and raising nothing.
CapIsSilent ==
    (pc = "tree" /\ fr.j >= max_tree_depth) =>
        /\ pc' = "loop"
        /\ exc' = NoExc
        /\ fr'.i = fr.i + 1
        /\ hist'.writes = Append(hist.writes, fr.i)

\* C5: every NUTS iteration terminates: build_tree(depth j) returns after at
\* most 2^j leapfrog steps, the doubling loop runs at most max_tree_depth
\* = 10 times, and at the cap the iteration ends silently.
C5_NutsTerminates == []TreeBounded /\ [][CapIsSilent]_vars

\* C5, reached: a run has returned whose last iteration doubled
\* max_tree_depth times with the continue flag still 1, its last
\* build_tree taking 2^(max_tree_depth - 1) steps.
C5_Witness ==
    /\ Returned
    /\ kind = "NUTS"
    /\ hist.doublings = max_tree_depth
    /\ hist.lastleap = 2 ^ (max_tree_depth - 1)
    /\ hist.nleap = 2 ^ max_tree_depth - 1
    /\ exc = NoExc

\* C6: where no value overflows, HamiltonianMC.leapfrog applied twice
\* returns the original (q, p), and NUTS.leapfrog with +epsilon and then
\* -epsilon (or: step, negate the momentum, step, negate) returns the
\* original (q, p).
C6_LeapfrogReversible ==
    (aux.stage \in {"hmc", "nuts"} /\ aux.exact) =>
        /\ aux.back = << aux.q, aux.p >>
        /\ aux.back2 = << aux.q, aux.p >>

\* C6, reached: three steps of HamiltonianMC.leapfrog under the quartic
\* target moved both q and p, in two dimensions.
C6_Witness ==
    /\ aux.stage = "hmc"
    /\ aux.exact
    /\ aux.L = 3
    /\ aux.target = "quartic"
    /\ Len(aux.q) = 2
    /\ aux.fwd[1] # aux.q
    /\ aux.fwd[2] # VNeg(aux.p)

\* The configurations the specification calls invalid.
InvalidConfig ==
    \/ kind = "MH" /\ XLe(cfg.proposal_std, Zero)
    \/ kind = "HMC" /\ (XLe(cfg.epsilon, Zero) \/ cfg.L <= 0)
    \/ kind \in {"MH", "HMC"} /\ cfg.thin <= 0
    \/ cfg.target = "gauss2" /\ Len(cfg.initial_state) # 2

\* C7, as stated: an invalid configuration is rejected with a configuration
\* error before any draw is made or any chain row is written.
C7_InvalidConfigFailsFast ==
    InvalidConfig =>
        /\ pc \in {"new", "raised"}
        /\ hist.writes = <<>>
        /\ rng = hist.seed
        /\ pc = "raised" => exc.type = "ConfigurationError"

\* C8: once the target has raised inside sample(), the call has ended with
\* that very exception, and samples and acceptance_rate are what they were
\* before the call.
C8_TargetErrorPropagates ==
    hist.target_raised =>
        /\ pc = "raised"
        /\ exc = TargetError
        /\ inst.samples = None
        /\ inst.acceptance_rate = None
        /\ ret = None

\* C8, reached: the target raised inside build_tree in a later iteration of
\* NUTS.sample, rows already written.
C8_Witness ==
    /\ hist.target_raised
    /\ hist.decisions >= 1
    /\ kind = "NUTS"

\* C9, as stated: with the iterations of two instances interleaved, each
\* instance's chain is the chain it produces alone from the same seed.
C9_InstancesIndependent ==
    /\ aux.a.chain = aux.a.solo
    /\ aux.b.chain = aux.b.solo

AcceptedWrites == Cardinality({ i \in 1..Len(hist.trace) : hist.trace[i].accept })

\* C11: after MetropolisHastings.sample or HamiltonianMC.sample returns,
\* acceptance_rate is accepted / (burn_in + n_samples * thin), accepted
\* counting exactly the iterations whose proposal was written to the chain,
\* so that the rate lies in [0, 1]; and self.samples is the returned slice
\* of the chain.
C11_AcceptanceRate ==
    (Returned /\ kind \in {"MH", "HMC"}) =>
        /\ inst.acceptance_rate.set
        /\ inst.acceptance_rate.val.num = AcceptedWrites
        /\ inst.acceptance_rate.val.den = cfg.burn_in + cfg.n_samples * cfg.thin
        /\ AcceptedWrites =
              Cardinality({ i \in 1..Len(hist.trace) :
                              fr.all_samples[i + 1] = hist.trace[i].proposed
                              /\ hist.trace[i].accept })
        /\ \A i \in 1..Len(hist.trace) :
              ~hist.trace[i].accept => fr.all_samples[i + 1] = fr.all_samples[i]
        /\ 0 <= inst.acceptance_rate.val.num
        /\ inst.acceptance_rate.val.num <= inst.acceptance_rate.val.den
        /\ inst.samples = ret
        /\ ret = Some(Slice(fr.all_samples, cfg.burn_in, cfg.thin))

\* C11, reached: a returned HamiltonianMC run that accepted some proposals
\* and rejected others, burn-in and thinning both in use.
C11_Witness ==
    /\ Returned
    /\ kind = "HMC"
    /\ cfg.burn_in = 1 /\ cfg.thin = 2
    /\ inst.acceptance_rate.val.num >= 1
    /\ inst.acceptance_rate.val.num < hist.decisions

\* epsilon_bar, the averaged step size.
epsilon_bar == ExpOfMilli(fr.log_epsilon_bar)

\* The number of passes of the loop of NUTS.sample completed so far.
IterationsDone == Len(hist.trace)

\* C12, as stated: in NUTS.sample the dual averaging has run exactly in the
\* iterations 1 .. adapt_steps completed so far, and every iteration
\* m > adapt_steps builds its tree with the step size epsilon_bar.
C12_FrozenAtEpsilonBar ==
    (kind = "NUTS" /\ pc \in {"loop", "tree"}) =>
        /\ Len(inst.epsilon_history) =
              1 + (IF IterationsDone < cfg.adapt_steps THEN IterationsDone
                   ELSE cfg.adapt_steps)
        /\ (pc = "tree" /\ fr.i > cfg.adapt_steps) => fr.epsilon = epsilon_bar

\* ------------------------------------------------------------------------
\* HamiltonianMC.tune_parameters
\* ------------------------------------------------------------------------

\* Largest n_tuning.
MaxTuning == 2

\* np.logspace(-2, 0, 10), in units of 1/10000.
epsilon_candidates == << 100, 167, 278, 464, 774, 1292, 2154, 3594, 5995, 10000 >>

\* abs(self.acceptance_rate - target_accept) for the rate num / den and a
\* target in thousandths, in units of 1 / (1000 * den); target_accept may be
\* any float.
TuneDiff(num, den, target) ==
    IF target.t = "nan" THEN NaN
    ELSE IF target.t = "inf" THEN PInf
    ELSE MFin(Abs(1000 * num - target.v * den))

\* A faulty comparison that also takes a candidate on a tie.
CloserOrEqual(diff, best_diff) == XLe(diff, best_diff)

\* diff < best_diff
Closer(diff, best_diff) == XLt(diff, best_diff)

InitTune ==
    /\ Idle
    /\ rng = 0
    /\ hist = NoHist
    /\ aux \in [ stage : {"loop"},
                 k : {1},
                 epsilon : {1000, 2154},
                 original : {0},
                 L : {10},
                 n_tuning : 1..MaxTuning,
                 target_accept : { MFin(0), MFin(250), MFin(500), MFin(650),
                                   MFin(1000), NaN, PInf },
                 best_epsilon : {0},
                 best_diff : {PInf},
                 rate : {None},
                 trials : {<<>>},
                 ret : {None} ]

\* The beginning of tune_parameters: best_epsilon = self.epsilon.
TuneStart ==
    /\ aux.stage = "loop"
    /\ aux.original = 0
    /\ aux' = [aux EXCEPT !.original = aux.epsilon, !.best_epsilon = aux.epsilon]
    /\ UNCHANGED << kind, cfg, inst, pc, fr, rng, exc, ret, hist >>

\* One pass of the loop of tune_parameters: the trial run of sample() with
\* the candidate, which accepts any number of its n_tuning - 1 proposals, and
\* the comparison of its acceptance rate.
TuneTrial ==
    /\ aux.stage = "loop"
    /\ aux.original # 0
    /\ aux.k <= Len(epsilon_candidates)
    /\ \E accepted \in 0..(aux.n_tuning - 1) :
       \E eps \in {epsilon_candidates[aux.k]} :
       \E diff \in {TuneDiff(accepted, aux.n_tuning, aux.target_accept)} :
           aux' = [aux EXCEPT
                     !.epsilon = eps,
                     !.rate = Some(Rate(accepted, aux.n_tuning)),
                     !.best_diff = IF Closer(diff, aux.best_diff) THEN diff ELSE @,
                     !.best_epsilon = IF Closer(diff, aux.best_diff) THEN eps ELSE @,
                     !.trials = Append(@, [ epsilon |-> eps, n_samples |-> aux.n_tuning,
                                            burn_in |-> 0, thin |-> 1,
                                            accepted |-> accepted ]),
                     !.k = @ + 1]
    /\ UNCHANGED << kind, cfg, inst, pc, fr, rng, exc, ret, hist >>

\* The end of tune_parameters.
TuneReturn ==
    /\ aux.stage = "loop"
    /\ aux.original # 0
    /\ aux.k > Len(epsilon_candidates)
    /\ aux' = [aux EXCEPT !.stage = "returned",
                          !.epsilon = aux.best_epsilon,
                          !.ret = Some(<< aux.best_epsilon, aux.L >>)]
    /\ UNCHANGED << kind, cfg, inst, pc, fr, rng, exc, ret, hist >>

NextTune ==
    \/ TuneStart
    \/ TuneTrial
    \/ TuneReturn

SpecTune == InitTune /\ [][NextTune]_vars

\* The distance of trial k's acceptance rate from target_accept.
TrialDiff(k) == TuneDiff(aux.trials[k].accepted, aux.trials[k].n_samples, aux.target_accept)

\* tune_parameters has run one trial sample(n_tuning, burn_in=0, thin=1) for
\* each candidate in ascending order, and self.epsilon is the first of the
\* candidates whose trial acceptance rate is closest to target_accept; the
\* pair returned is (self.epsilon, L).
TunedToClosest ==
    /\ Len(aux.trials) = 10
    /\ \A k \in 1..Len(aux.trials) :
          /\ aux.trials[k].epsilon = epsilon_candidates[k]
          /\ aux.trials[k].n_samples = aux.n_tuning
          /\ aux.trials[k].burn_in = 0
          /\ aux.trials[k].thin = 1
          /\ k > 1 => aux.trials[k - 1].epsilon < aux.trials[k].epsilon
    /\ \E b \in 1..Len(aux.trials) :
          /\ aux.epsilon = epsilon_candidates[b]
          /\ \A k \in 1..Len(aux.trials) : XLe(TrialDiff(b), TrialDiff(k))
          /\ \A k \in 1..(b - 1) : XLt(TrialDiff(b), TrialDiff(k))
    /\ aux.ret = Some(<< aux.epsilon, aux.L >>)
    /\ aux.L = 10

\* C13: for a finite target_accept, tune_parameters returns with self.epsilon
\* the first of the 10 ascending candidates whose trial acceptance rate is
\* closest to target_accept, each candidate tried once with
\* sample(n_tuning, burn_in=0, thin=1), and returns (self.epsilon, L).
C13_TunedToClosestFinite ==
    (aux.stage = "returned" /\ IsFinite(aux.target_accept)) => TunedToClosest

\* C13, reached: tune_parameters has returned a candidate that is not the
\* first one, although a later candidate's trial came equally close.
C13_Witness ==
    /\ aux.stage = "returned"
    /\ IsFinite(aux.target_accept)
    /\ aux.epsilon = epsilon_candidates[3]
    /\ TrialDiff(7) = TrialDiff(3)
    /\ aux.original # aux.epsilon

\* C13, as stated: whatever target_accept is, self.epsilon is on return the
\* first candidate closest to it, and always one of the 10 candidates.
C13_TunedToClosestAlways ==
    aux.stage = "returned" => TunedToClosest

\* ------------------------------------------------------------------------
\* Diagnostics: gelman_rubin and effective_sample_size
\* ------------------------------------------------------------------------

\* Most chains handed to gelman_rubin, their greatest length, the most values
\* they hold together, and the greatest length of a series handed to
\* effective_sample_size.
MaxChains == 2
MaxChainLen == 3
MaxCells == 8
MaxSeries == 4

\* The values a chain is made of.
ChainVals == {0, 1, 3}

RECURSIVE GCD(_, _)
GCD(a, b) == IF b = 0 THEN a ELSE GCD(b, a % b)

\* The rational n / d in lowest terms, d # 0.
Rat(n, d) ==
    LET g == GCD(Abs(n), Abs(d))
        sgn == IF d < 0 THEN -1 ELSE 1
    IN [ num |-> sgn * (n \div g), den |-> sgn * (d \div g) ]

RInt(n) == Rat(n, 1)
RAdd(a, b) == Rat(a.num * b.den + b.num * a.den, a.den * b.den)
RSub(a, b) == Rat(a.num * b.den - b.num * a.den, a.den * b.den)
RMul(a, b) == Rat(a.num * b.num, a.den * b.den)
RDiv(a, b) == Rat(a.num * b.den, a.den * b.num)
RLt(a, b) == a.num * b.den < b.num * a.den
RLe(a, b) == a.num * b.den <= b.num * a.den

RECURSIVE RSum(_)
RSum(s) == IF s = <<>> THEN RInt(0) ELSE RAdd(Head(s), RSum(Tail(s)))

\* A float that is a rational, NaN or +inf.
RFin(r) == [ t |-> "fin", r |-> r ]
RNaN == [ t |-> "nan", r |-> RInt(0) ]
RInf == [ t |-> "inf", r |-> RInt(0) ]

\* a / b in floating point for a >= 0: x / 0 is inf, 0 / 0 is NaN.
FDiv(a, b) ==
    IF b.num # 0 THEN RFin(RDiv(a, b))
    ELSE IF a.num = 0 THEN RNaN ELSE RInf

\* np.mean
Mean(s) == RDiv(RSum(s), RInt(Len(s)))

\* np.var(s, ddof=1), Len(s) >= 2
Var1(s) ==
    LET mu == Mean(s)
        dev == [ i \in 1..Len(s) |-> RMul(RSub(s[i], mu), RSub(s[i], mu)) ]
    IN RDiv(RSum(dev), RInt(Len(s) - 1))

AsFloats(s) == [ i \in 1..Len(s) |-> RInt(s[i]) ]

\* Within-chain variance W of gelman_rubin.
WithinVariance(chains) ==
    Mean([ c \in 1..Len(chains) |-> Var1(AsFloats(chains[c])) ])

\* Between-chain variance B of gelman_rubin.
BetweenVariance(chains) ==
    LET n == Len(chains[1])
        chain_means == [ c \in 1..Len(chains) |-> Mean(AsFloats(chains[c])) ]
    IN RMul(RInt(n), Var1(chain_means))

\* np.sqrt of a float that is not negative, kept as the value under the root.
Sqrt(x) == [ t |-> x.t, sq |-> x.r ]

\* A faulty pooled variance that weights W with n instead of n - 1.
PooledVarianceFullWeight(n, W, B) == RDiv(RAdd(RMul(RInt(n), W), B), RInt(n))

\* var_plus = ((n - 1) * W + B) / n
PooledVariance(n, W, B) == RDiv(RAdd(RMul(RInt(n - 1), W), B), RInt(n))

gelman_rubin(chains) ==
    LET n == Len(chains[1])
        W == WithinVariance(chains)
        B == BetweenVariance(chains)
        var_plus == PooledVariance(n, W, B)
    IN Sqrt(FDiv(var_plus, W))

\* r_hat < x for a rational x >= 0; a comparison with NaN is false.
SqrtLess(r_hat, x) ==
    /\ r_hat.t = "fin"
    /\ RLt(r_hat.sq, RMul(x, x))

\* np.correlate(c, c, mode='full')[len // 2:], lag k of it (k = 0 .. n - 1).
Correlate(c, k) == RSum([ i \in 1..(Len(c) - k) |-> RMul(c[i], c[i + k]) ])

\* acf[1:][acf[1:] > 0], the strictly positive autocorrelations of lag >= 1;
\* with acf[0] = 0 every entry is NaN and none is selected.
PositiveAcf(samples) ==
    LET n == Len(samples)
        mu == Mean(AsFloats(samples))
        centered == [ i \in 1..n |-> RSub(RInt(samples[i]), mu) ]
        acf0 == Correlate(centered, 0)
    IN IF acf0.num = 0 THEN <<>>
       ELSE SelectSeq([ k \in 1..(n - 1) |-> RDiv(Correlate(centered, k), acf0) ],
                      LAMBDA a : RLt(RInt(0), a))

\* max(ess, 1.0) applied to every input, the early return included.
FloorAlways(n, ess) == IF RLt(ess, RInt(1)) THEN RInt(1) ELSE ess

\* if n < 2: return n, and else max(ess, 1.0).
FloorAtOne(n, ess) ==
    IF n < 2 THEN RInt(n)
    ELSE IF RLt(ess, RInt(1)) THEN RInt(1) ELSE ess

\* ess = n / (1 + 2 * sum of the positive autocorrelations)
EssRaw(samples) ==
    IF Len(samples) < 2 THEN RInt(Len(samples))
    ELSE RDiv(RInt(Len(samples)),
              RAdd(RInt(1), RMul(RInt(2), RSum(PositiveAcf(samples)))))

effective_sample_size(samples) == FloorAtOne(Len(samples), EssRaw(samples))

SeqsOver(S, lo, hi) == UNION { [1..n -> S] : n \in lo..hi }

NoOut == [ set |-> FALSE ]

InitDiag ==
    /\ Idle
    /\ rng = 0
    /\ hist = NoHist
    /\ aux \in [ op : {"gelman_rubin"},
                 chains : UNION { IF m * n <= MaxCells
                                    THEN [1..m -> [1..n -> ChainVals]] ELSE {} :
                                    m \in 2..MaxChains, n \in 2..MaxChainLen },
                 samples : {<<>>},
                 out : {NoOut} ]
           \cup
           [ op : {"effective_sample_size"},
             chains : {<<>>},
             samples : SeqsOver(ChainVals, 0, MaxSeries),
             out : {NoOut} ]

DiagGelmanRubin ==
    /\ aux.op = "gelman_rubin"
    /\ ~aux.out.set
    /\ \E r \in {gelman_rubin(aux.chains)} :
          aux' = [aux EXCEPT !.out = [ set |-> TRUE, r_hat |-> r ]]
    /\ UNCHANGED << kind, cfg, inst, pc, fr, rng, exc, ret, hist >>

DiagEffectiveSampleSize ==
    /\ aux.op = "effective_sample_size"
    /\ ~aux.out.set
    /\ \E e \in {effective_sample_size(aux.samples)} :
          aux' = [aux EXCEPT !.out = [ set |-> TRUE, ess |-> e ]]
    /\ UNCHANGED << kind, cfg, inst, pc, fr, rng, exc, ret, hist >>

NextDiag ==
    \/ DiagGelmanRubin
    \/ DiagEffectiveSampleSize

SpecDiag == InitDiag /\ [][NextDiag]_vars

GelmanRubinDone == aux.op = "gelman_rubin" /\ aux.out.set

\* C14: for m >= 2 chains of length n >= 2 with W > 0, gelman_rubin returns
\* R-hat with R-hat^2 = ((n-1)*W + B) / (n*W); equal chain means (B = 0) give
\* R-hat^2 = (n-1)/n and R-hat < 1.1; and R-hat < 1.1 exactly when
\* B < (0.21*n + 1)*W.
C14_RHat ==
    GelmanRubinDone =>
        LET n == Len(aux.chains[1])
            W == WithinVariance(aux.chains)
            B == BetweenVariance(aux.chains)
            r_hat == aux.out.r_hat
        IN RLt(RInt(0), W) =>
             /\ Len(aux.chains) >= 2 /\ n >= 2
             /\ r_hat.t = "fin"
             /\ r_hat.sq = RDiv(RAdd(RMul(RInt(n - 1), W), B), RMul(RInt(n), W))
             /\ (B = RInt(0)) =>
                   /\ r_hat.sq = Rat(n - 1, n)
                   /\ SqrtLess(r_hat, Rat(11, 10))
             /\ SqrtLess(r_hat, Rat(11, 10))
                   <=> RLt(B, RMul(Rat(21 * n + 100, 100), W))

\* C14, reached: chains with different means that still give R-hat < 1.1.
C14_Witness ==
    /\ GelmanRubinDone
    /\ RLt(RInt(0), WithinVariance(aux.chains))
    /\ RLt(RInt(0), BetweenVariance(aux.chains))
    /\ SqrtLess(aux.out.r_hat, Rat(11, 10))
    /\ RLt(RInt(1), aux.out.r_hat.sq)

EssDone == aux.op = "effective_sample_size" /\ aux.out.set

\* C15: for every series of length n, n = 0 and n = 1 and constant series
\* included, effective_sample_size returns n / (1 + 2 * sum of the strictly
\* positive autocorrelations of lag >= 1) floored at 1: never below 1 and
\* never above max(n, 1).
C15_EssFlooredAtOne ==
    EssDone =>
        LET n == Len(aux.samples)
            ess == aux.out.ess
        IN /\ ess = FloorAlways(n, EssRaw(aux.samples))
           /\ RLe(RInt(1), ess)
           /\ RLe(ess, RInt(IF n > 1 THEN n ELSE 1))

\* ------------------------------------------------------------------------
\* NUTS.build_tree as a pure function
\* ------------------------------------------------------------------------

\* Greatest depth j handed to build_tree.
MaxDepth == 3

TreeTargets == {"gauss", "flat", "support"}
TreeVectors == { << Zero >>, << One >>, << XNeg(Half) >>, << Num(-2) >>,
                 << Num(45) >>, << Zero, One >>, << One, Half >> }
TreeEps == { Half, One }
TreeSlices == { PZero, Pos(UDen \div 2, -ExpMin) }

\* The context of one call of build_tree from the arguments in aux.
TreeContext(a) ==
    [ target |-> a.target, u |-> a.u, v |-> a.v, epsilon |-> a.epsilon,
      q0 |-> a.q, p0 |-> a.p ]

\* Where the second depth-(j-1) subtree starts, given the first subtree t1.
SecondStart(c, t1) ==
    IF c.v = -1 THEN [ q |-> t1.q_bwd, p |-> t1.p_bwd ]
    ELSE [ q |-> t1.q_fwd, p |-> t1.p_fwd ]

RECURSIVE TreeSteps(_, _, _, _, _)
\* The calls of self.leapfrog that build_tree(q, p, u, v, j, ...) makes, in
\* order: the state each starts from and the state it produces.
TreeSteps(c, q, p, j, s) ==
    IF j = 0
    THEN LET lf == NUTS_leapfrog(c.target, q, p, XMul(Num(c.v), c.epsilon))
         IN  << [ from_q |-> q, from_p |-> p, to_q |-> lf.q, to_p |-> lf.p ] >>
    ELSE LET t1 == build_tree(c, q, p, j - 1, s)
             first == TreeSteps(c, q, p, j - 1, s)
         IN  IF t1.raised \/ t1.s_prime # 1 THEN first
             ELSE first \o TreeSteps(c, SecondStart(c, t1).q, SecondStart(c, t1).p,
                                     j - 1, t1.rng)

RECURSIVE LeapChain(_, _, _, _, _)
\* k successive leapfrog steps of size epsilon from (q, p).
LeapChain(target, q, p, epsilon, k) ==
    IF k = 0 THEN [ q |-> q, p |-> p ]
    ELSE LET lf == NUTS_leapfrog(target, q, p, epsilon)
         IN  LeapChain(target, lf.q, lf.p, epsilon, k - 1)

NoTree == [ raised |-> TRUE, nleap |-> 0 ]

InitTree ==
    /\ Idle
    /\ rng = 0
    /\ hist = NoHist
    /\ aux \in { a \in [ stage : {"in"}, target : TreeTargets, q : TreeVectors,
                         p : TreeVectors, epsilon : TreeEps, u : TreeSlices,
                         v : {-1, 1}, j : 0..MaxDepth, seed : {0, 1},
                         t : {NoTree}, first : {NoTree}, second : {NoTree},
                         steps : {<<>>} ] :
                 Len(a.q) = Len(a.p) }

\* One call of build_tree, with the two recursive calls it makes.
TreeBuild ==
    /\ aux.stage = "in"
    /\ \E c \in {TreeContext(aux)} :
       \E t \in {build_tree(c, aux.q, aux.p, aux.j, aux.seed)} :
       \E t1 \in {IF aux.j = 0 THEN NoTree
                  ELSE build_tree(c, aux.q, aux.p, aux.j - 1, aux.seed)} :
       \E t2 \in {IF aux.j = 0 \/ t1.raised \/ t1.s_prime # 1 THEN NoTree
                  ELSE build_tree(c, SecondStart(c, t1).q, SecondStart(c, t1).p,
                                  aux.j - 1, t1.rng)} :
           aux' = [aux EXCEPT !.stage = "built", !.t = t, !.first = t1,
                              !.second = t2,
                              !.steps = TreeSteps(c, aux.q, aux.p, aux.j, aux.seed)]
    /\ UNCHANGED << kind, cfg, inst, pc, fr, rng, exc, ret, hist >>

NextTree == TreeBuild

SpecTree == InitTree /\ [][NextTree]_vars

TreeBuilt == aux.stage = "built" /\ ~aux.t.raised

\* The endpoint build_tree returns for the direction it was built in.
FacingEndpoint ==
    IF aux.v = -1 THEN [ q |-> aux.t.q_bwd, p |-> aux.t.p_bwd ]
    ELSE [ q |-> aux.t.q_fwd, p |-> aux.t.p_fwd ]

\* C17: for every depth j and both directions, when every continue-flag is 1,
\* build_tree takes exactly 2^j leapfrog steps of size v*epsilon, each from the
\* state the previous one produced, and the endpoint returned for direction v
\* is the state 2^j steps away from the (q, p) it started from.
C17_TreeIsAChain ==
    (TreeBuilt /\ aux.t.s_prime = 1) =>
        /\ Len(aux.steps) = 2 ^ aux.j
        /\ aux.t.nleap = 2 ^ aux.j
        /\ aux.steps[1].from_q = aux.q /\ aux.steps[1].from_p = aux.p
        /\ \A i \in 2..Len(aux.steps) :
              /\ aux.steps[i].from_q = aux.steps[i - 1].to_q
              /\ aux.steps[i].from_p = aux.steps[i - 1].to_p
        /\ FacingEndpoint = LeapChain(aux.target, aux.q, aux.p,
                                      XMul(Num(aux.v), aux.epsilon), 2 ^ aux.j)

\* The outermost states of the trajectory build_tree has integrated: the
\* product of its last leapfrog step on the side it grows towards, the
\* product of its first on the other.
MergedEndpoints ==
    LET inner == aux.steps[1]
        outer == aux.steps[Len(aux.steps)]
    IN  IF aux.v = -1
        THEN [ q_bwd |-> outer.to_q, p_bwd |-> outer.to_p,
               q_fwd |-> inner.to_q, p_fwd |-> inner.to_p ]
        ELSE [ q_bwd |-> inner.to_q, p_bwd |-> inner.to_p,
               q_fwd |-> outer.to_q, p_fwd |-> outer.to_p ]

\* (q_fwd - q_bwd).p_bwd >= 0 and (q_fwd - q_bwd).p_fwd >= 0 for the endpoints
\* of the merged tree.
NoUTurnMerged ==
    LET e == MergedEndpoints
    IN  /\ XGe(Dot(VSub(e.q_fwd, e.q_bwd), e.p_bwd), Zero)
        /\ XGe(Dot(VSub(e.q_fwd, e.q_bwd), e.p_fwd), Zero)

\* C19: in the recursive case of build_tree the second depth-(j-1) subtree is
\* built iff the first subtree's continue-flag is 1; then the count returned
\* is n1 + n2 and the flag returned is 1 iff both subtrees' flags are 1 and
\* both inner products with the merged endpoints are >= 0; when the first flag
\* is 0 the first subtree's count, proposal and flag 0 are returned unchanged.
C19_MergeOfSubtrees ==
    (TreeBuilt /\ aux.j >= 1) =>
        IF aux.first.s_prime = 1
        THEN /\ aux.t.nleap = aux.first.nleap + aux.second.nleap
             /\ Len(aux.steps) = aux.first.nleap + aux.second.nleap
             /\ aux.second.nleap >= 1
             /\ aux.t.n_prime = aux.first.n_prime + aux.second.n_prime
             /\ aux.t.s_prime \in {0, 1}
             /\ aux.t.s_prime = 1 <=> /\ aux.first.s_prime = 1
                                      /\ aux.second.s_prime = 1
                                      /\ NoUTurnMerged
        ELSE /\ aux.t.nleap = aux.first.nleap
             /\ Len(aux.steps) = aux.first.nleap
             /\ aux.second = NoTree
             /\ aux.t.n_prime = aux.first.n_prime
             /\ aux.t.q_prime = aux.first.q_prime
             /\ aux.t.p_prime = aux.first.p_prime
             /\ aux.t.s_prime = 0
             /\ aux.t = aux.first

\* A doubling of the current iteration has just been made.
Doubled == kind = "NUTS" /\ pc = "tree" /\ hist.doublings >= 1

\* The endpoints NUTS.sample holds.
StoredEndpoints ==
    [ q_bwd |-> fr.q_bwd, p_bwd |-> fr.p_bwd, q_fwd |-> fr.q_fwd, p_fwd |-> fr.p_fwd ]

\* C18: after every doubling the stored (q_bwd, p_bwd) and (q_fwd, p_fwd) are
\* the leftmost and rightmost states of the trajectory built so far in the
\* iteration, so that the next doubling starts from the outermost endpoint.
C18_EndpointsAreOutermost ==
    (Doubled /\ hist.dbl.exact /\ hist.dbl.s_prime = 1) =>
        StoredEndpoints = hist.outer

\* The no-U-turn test on the endpoints e.
NoUTurn(e) ==
    /\ XGe(Dot(VSub(e.q_fwd, e.q_bwd), e.p_bwd), Zero)
    /\ XGe(Dot(VSub(e.q_fwd, e.q_bwd), e.p_fwd), Zero)

\* The draw of the latest doubling is below min(1, n_subtree / n) for the n
\* before the accumulation.
DrawBelowRatio == hist.dbl.draw * hist.dbl.n < hist.dbl.n_prime * UDen

\* What every doubling does to the draw, to n and to j.
DoublingBookkeeping ==
    /\ fr.q_new = IF hist.dbl.s_prime = 1 /\ DrawBelowRatio
                  THEN hist.dbl.q_prime ELSE hist.dbl.q_new
    /\ hist.dbl.n_prime = 0 => fr.q_new = hist.dbl.q_new
    /\ hist.dbl.s_prime # 1 => fr.q_new = hist.dbl.q_new
    /\ fr.n = hist.dbl.n + hist.dbl.n_prime
    /\ fr.j = hist.dbl.j + 1
    /\ fr.s \in {0, 1}

\* C20: in each doubling the draw is replaced by the subtree's proposal only
\* if the subtree's flag is 1, and then with probability min(1, n_subtree / n)
\* for n before the accumulation, never when n_subtree = 0; n grows by
\* n_subtree whatever the flag; the global flag becomes the subtree's flag
\* AND the no-U-turn test on the new global endpoints; j grows by exactly 1.
C20_Doubling ==
    Doubled =>
        /\ DoublingBookkeeping
        /\ hist.dbl.exact =>
              (fr.s = 1 <=> (hist.dbl.s_prime = 1 /\ NoUTurn(hist.outer)))

\* The energy of the last state the latest doubling integrated.
LastLeafEnergy == hamiltonian(cfg.target, hist.dbl.q_last, hist.dbl.p_last)

\* The latest doubling ended on a leaf whose energy is +inf or NaN.
NonFiniteLeaf ==
    /\ kind = "NUTS"
    /\ hist.doublings >= 1
    /\ (IsNaN(LastLeafEnergy) \/ LastLeafEnergy = PInf)

\* Such a leaf is invalid and non-continuing, nothing is raised and the
\* doubling loop is over.
NonFiniteLeafStops ==
    (pc = "tree" /\ NonFiniteLeaf) =>
        /\ ~LeafValid(fr.u, LastLeafEnergy)
        /\ hist.dbl.j = 0 => hist.dbl.n_prime = 0
        /\ hist.dbl.s_prime = 0
        /\ fr.s = 0
        /\ exc = NoExc
        /\ ~ENABLED NUTS_Double

\* The iteration then records its chain row.
NonFiniteLeafRecordsRow ==
    (pc = "tree" /\ NonFiniteLeaf) =>
        /\ pc' = "loop"
        /\ exc' = NoExc
        /\ fr'.all_samples[fr.i + 1] = fr.q_new
        /\ hist'.writes = Append(hist.writes, fr.i)

\* C21: a leaf of build_tree whose energy is +inf or NaN is returned as
\* invalid and non-continuing (n' = 0, s' = 0) without an exception, so the
\* doubling loop stops and the outer iteration still records a chain row.
C21_NonFiniteLeaf == []NonFiniteLeafStops /\ [][NonFiniteLeafRecordsRow]_vars

\* C21, reached: an iteration whose tree ended on a leaf of non-finite energy
\* has recorded its row.
C21_Witness ==
    /\ pc = "loop"
    /\ NonFiniteLeaf
    /\ Len(hist.trace) >= 1
    /\ exc = NoExc

\* A depth-0 call of build_tree has returned.
LeafBuilt == TreeBuilt /\ aux.j = 0

\* The energy H' of the state a depth-0 call produced.
LeafEnergy == hamiltonian(aux.target, aux.t.q_new, aux.t.p_new)

\* What a depth-0 call does: one leapfrog step of size v*epsilon, the two
\* flags from u and H', one acceptance statistic, and a valid leaf continues.
LeafIsOneStep ==
    LET lf == NUTS_leapfrog(aux.target, aux.q, aux.p, XMul(Num(aux.v), aux.epsilon))
    IN  /\ aux.t.nleap = 1
        /\ Len(aux.steps) = 1
        /\ aux.steps[1].from_q = aux.q /\ aux.steps[1].from_p = aux.p
        /\ aux.t.q_new = lf.q /\ aux.t.p_new = lf.p
        /\ aux.t.q_fwd = lf.q /\ aux.t.q_bwd = lf.q /\ aux.t.q_prime = lf.q
        /\ aux.t.n_prime = 1 <=> PLt(aux.u, Exp(XNeg(LeafEnergy)))
        /\ aux.t.n_prime \in {0, 1}
        /\ aux.t.s_prime = 1 <=> PLt(aux.u, Exp(XSub(Num(1000), LeafEnergy)))
        /\ aux.t.s_prime \in {0, 1}
        /\ aux.t.n_alpha_prime = 1
        /\ aux.t.n_prime = 1 => aux.t.s_prime = 1

\* H' is at least 1000 above -log(u), for u = (m / UDen) * exp(e / Scale) > 0:
\* implied by H' >= 1000 - log(u), as log(u) <= e / Scale.
EnergyFarAboveSlice ==
    \/ LeafEnergy = PInf
    \/ /\ IsFinite(LeafEnergy)
       /\ aux.u.m > 0
       /\ LeafEnergy.v >= 1000 * Scale - aux.u.e

\* exp(1000 - H') has underflowed to zero.
MarginUnderflows == IsFinite(LeafEnergy) /\ Exp(XSub(Num(1000), LeafEnergy)) = PZero

\* C22: a depth-0 build_tree takes exactly one leapfrog step of size
\* v*epsilon, n' = 1 iff u < exp(-H'), s' = 1 iff u < exp(1000 - H'),
\* n_alpha' = 1, a valid leaf is a continuing leaf, and s' = 0 only when H' is
\* NaN, or exceeds -log(u) by 1000 or more, or u = 0 and exp(1000 - H') is 0.
C22_LeafFlags ==
    LeafBuilt =>
        /\ LeafIsOneStep
        /\ aux.t.s_prime = 0 =>
              \/ IsNaN(LeafEnergy)
              \/ EnergyFarAboveSlice
              \/ aux.u.m = 0 /\ MarginUnderflows

\* C22, reached: a leaf of finite energy that is neither valid nor continuing
\* for a positive slice variable.
C22_Witness ==
    /\ LeafBuilt
    /\ aux.t.s_prime = 0
    /\ aux.t.n_prime = 0
    /\ IsFinite(LeafEnergy)
    /\ aux.u.m > 0

\* C22, as stated: s' = 0 only when the energy exceeds -log(u) by more than
\* 1000.
C22_StopsOnlyFarAbove ==
    LeafBuilt =>
        /\ LeafIsOneStep
        /\ aux.t.s_prime = 0 => EnergyFarAboveSlice

\* The updates C23 lists for L steps, in order.
LeapfrogSchedule(L) ==
    << "half_p" >>
    \o [ i \in 1..(2 * (L - 1)) |-> IF i % 2 = 1 THEN "full_q" ELSE "full_p" ]
    \o << "full_q", "half_p", "negate" >>

RECURSIVE RunSchedule(_, _, _, _, _)
\* The state the updates of sched produce from (q, p).
RunSchedule(target, eps, q, p, sched) ==
    IF sched = <<>> THEN << q, p >>
    ELSE LET op == Head(sched)
             q1 == IF op = "full_q" THEN VAdd(q, VScale(eps, p)) ELSE q
             p1 == IF op = "half_p"
                   THEN VAdd(p, VScale(XMul(Half, eps), grad_log_density(target, q)))
                   ELSE IF op = "full_p"
                   THEN VAdd(p, VScale(eps, grad_log_density(target, q)))
                   ELSE IF op = "negate" THEN VNeg(p)
                   ELSE p
         IN  RunSchedule(target, eps, q1, p1, Tail(sched))

CountOf(sched, ops) == Cardinality({ i \in 1..Len(sched) : sched[i] \in ops })

\* HamiltonianMC.leapfrog has returned.
LeapfrogReturned == aux.stage = "hmc" /\ aux.exact

LeapfrogFollowsSchedule ==
    LeapfrogReturned =>
        /\ aux.L >= 1
        /\ aux.fwd = RunSchedule(aux.target, aux.eps, aux.q, aux.p,
                                 LeapfrogSchedule(aux.L))
        /\ aux.npos = aux.L
        /\ aux.npos = CountOf(LeapfrogSchedule(aux.L), {"full_q"})
        /\ aux.ngrad = aux.L + 1
        /\ aux.ngrad = CountOf(LeapfrogSchedule(aux.L), {"half_p", "full_p"})

CallerArraysKept == aux'.q = aux.q /\ aux'.p = aux.p

\* C23: for L >= 1 HamiltonianMC.leapfrog makes a half momentum step, L-1
\* pairs of a full position and a full momentum step, a last full position
\* step, a last half momentum step and a negation of the momentum: L position
\* updates, L+1 gradient evaluations, and the caller's q and p are untouched.
C23_LeapfrogSchedule == []LeapfrogFollowsSchedule /\ [][CallerArraysKept]_vars

\* C23, reached: a leapfrog of three steps on a target with a nonlinear
\* gradient that moved the position.
C23_Witness ==
    /\ LeapfrogReturned
    /\ aux.L = 3
    /\ aux.target = "quartic"
    /\ aux.ngrad = 4
    /\ aux.fwd[1] # aux.q

\* The energy change -H(q', p') + H(q, p) of one leapfrog step of size
\* epsilon from (q, p) to (q', p').
EnergyChange(target, q, p, epsilon) ==
    LET lf == NUTS_leapfrog(target, q, p, epsilon)
    IN  XAdd(XNeg(hamiltonian(target, lf.q, lf.p)), hamiltonian(target, q, p))

RECURSIVE FirstCrossing(_, _, _, _, _)
\* The first epsilon, doubling (a = 1) or halving (a = -1) from epsilon, whose
\* energy change is no longer on the starting side of log(0.5).
FirstCrossing(target, q, p, a, epsilon) ==
    IF XGtMilli(XMul(Num(a), EnergyChange(target, q, p, epsilon)), -a * Log2Milli)
    THEN FirstCrossing(target, q, p, a, XMul(epsilon, IF a = 1 THEN Num(2) ELSE Half))
    ELSE epsilon

\* The step size of the heuristic as C24 describes it, the momentum drawn in
\* generator state s.
CrossingEpsilon(target, q, s) ==
    LET p == randn(s, Len(q))
        a == IF XGtMilli(EnergyChange(target, q, p, One), -Log2Milli) THEN 1 ELSE -1
    IN  FirstCrossing(target, q, p, a, One)

\* find_reasonable_epsilon has returned in this run.
HeuristicReturned == kind = "NUTS" /\ pc = "loop" /\ fr.i = 1

\* C24: find_reasonable_epsilon starts at 1, fixes the direction once from the
\* energy change between (q, p) and the leapfrog result (q', p') against
\* log(0.5), then only doubles or only halves, and returns the first epsilon,
\* a power of two, whose energy change is on the other side of the threshold.
C24_HeuristicCrossing ==
    HeuristicReturned =>
        /\ IsFinite(inst.epsilon_history[1])
        /\ inst.epsilon_history[1] =
              CrossingEpsilon(cfg.target, cfg.initial_state, hist.seed)

\* ------------------------------------------------------------------------
\* MetropolisHastings.acceptance_probability
\* ------------------------------------------------------------------------

\* a <= b for values of np.exp, neither of them NaN.
PLe(a, b) == ~PLt(b, a)

\* The states a proposal could have been, of the dimension of the chain.
Alternatives(d) == { q \in InitialStates \cup { << Half >>, << Num(3) >>, << XNeg(Half) >>, << One, One >> } : Len(q) = d }

\* The decision of one pass of the loop of MetropolisHastings.sample:
\* alpha is min(1, exp(log_density(proposed) - log_density(current))), it
\* lies in [0, 1], it is 1 when the proposal is at least as dense, no
\* denser alternative proposal would have had a smaller alpha, and the
\* proposal was accepted iff the draw was strictly below alpha.
DecisionOf(e) ==
    /\ e.alpha = Min1(Exp(XSub(e.to, e.from)))
    /\ PLe(PZero, e.alpha) /\ PLe(e.alpha, POne)
    /\ (IsFinite(e.to) /\ IsFinite(e.from) /\ XGe(e.to, e.from)) => e.alpha = POne
    /\ \A alt \in Alternatives(Len(e.current)) :
          XLe(e.to, log_density(cfg.target, alt))
              => PLe(e.alpha, acceptance_probability(cfg.target, e.current, alt))
    /\ e.accept <=> PLt(e.draw, e.alpha)

\* C25: acceptance_probability returns min(1, exp(log_density(proposed) -
\* log_density(current))): the result lies in [0, 1], it is 1 whenever the
\* proposal's log density is at least the current one (both finite), it is
\* non-decreasing in the proposal's log density, and sample() accepts the
\* proposal iff the uniform draw is strictly less than it.
C25_AcceptanceProbability ==
    kind = "MH" => \A i \in 1..Len(hist.trace) : DecisionOf(hist.trace[i])

\* A run that rejected a proposal whose draw equalled alpha and accepted a
\* less dense proposal on a draw below alpha.
C25_Witness ==
    /\ kind = "MH"
    /\ \E i \in 1..Len(hist.trace) :
          hist.trace[i].draw = hist.trace[i].alpha /\ ~hist.trace[i].accept
    /\ \E i \in 1..Len(hist.trace) :
          /\ hist.trace[i].accept
          /\ PLt(hist.trace[i].alpha, POne)
          /\ PLt(PZero, hist.trace[i].alpha)

\* ------------------------------------------------------------------------
\* NUTS.sample: the acceptance counter
\* ------------------------------------------------------------------------

\* C26: after NUTS.sample returns, acceptance_rate is a fraction in [0, 1]:
\* accepted is incremented at most once per outer iteration, so it never
\* exceeds total_iterations - 1.
C26_NutsRateInUnit ==
    (kind = "NUTS" /\ Returned) =>
        /\ fr.accepted <= fr.total - 1
        /\ inst.acceptance_rate.val.num <= inst.acceptance_rate.val.den

\* ------------------------------------------------------------------------
\* NUTS: what reaches the chain
\* ------------------------------------------------------------------------

\* The proposal of the latest subtree satisfied u < exp(-H) for the slice
\* variable of the iteration.
ProposalInSlice ==
    LeafValid(fr.u, hamiltonian(cfg.target, hist.dbl.q_prime, hist.dbl.p_prime))

\* The latest doubling replaced the draw of the iteration.
Adopted == TakeProposal(hist.dbl.s_prime, hist.dbl.n_prime, hist.dbl.n, hist.dbl.draw)

\* The outer loop has just written a row of the chain.
RowWritten == kind = "NUTS" /\ pc = "loop" /\ fr.i >= 2 /\ hist.doublings >= 1

\* C27: every state NUTS writes to the chain is the previous chain state or a
\* leapfrog state inside the slice of the iteration: a subtree that returns
\* n' >= 1 proposes a state inside the slice, sample() adopts no proposal of
\* a subtree with n' = 0, and the row written is the draw so formed.
C27_ChainStatesInSlice ==
    /\ Doubled =>
          /\ hist.dbl.n_prime >= 1 => ProposalInSlice
          /\ Adopted => (hist.dbl.n_prime >= 1 /\ fr.q_new = hist.dbl.q_prime)
          /\ ~Adopted => fr.q_new = hist.dbl.q_new
          /\ hist.doublings = 1 => hist.dbl.q_new = fr.all_samples[fr.i]
    /\ RowWritten =>
          /\ fr.all_samples[fr.i] = fr.q_new
          /\ \/ fr.q_new = hist.dbl.q_new
             \/ fr.q_new = hist.dbl.q_prime /\ hist.dbl.n_prime >= 1 /\ ProposalInSlice

\* A subtree of depth at least one whose proposal was adopted and is not the
\* last state it integrated.
C27_Witness ==
    /\ Doubled
    /\ Adopted
    /\ hist.dbl.j >= 1
    /\ hist.dbl.q_prime # hist.dbl.q_last
    /\ fr.q_new # fr.all_samples[fr.i]

\* ------------------------------------------------------------------------
\* NUTS: the statistics of a subtree
\* ------------------------------------------------------------------------

\* The dual-averaging update of the iteration is about to be made.
AtDualAveraging == kind = "NUTS" /\ pc = "tree" /\ ~ContinueDoubling(fr.s, fr.j)

\* C28: a build_tree call of depth j returns 0 <= n' <= n_alpha' <= 2^j with
\* n_alpha' >= 1 the number of leapfrog steps it took and 0 <= alpha' <=
\* n_alpha' (alpha' in thousandths); the doubling loop runs at least once per
\* iteration, so that alpha and n_alpha are defined at the dual-averaging
\* update, n >= 1 at every n_prime / n, and alpha / n_alpha lies in [0, 1].
C28_TreeStatistics ==
    /\ Doubled =>
          /\ 0 <= hist.dbl.n_prime
          /\ hist.dbl.n_prime <= fr.n_alpha
          /\ fr.n_alpha <= 2 ^ hist.dbl.j
          /\ fr.n_alpha >= 1
          /\ fr.n_alpha = hist.lastleap
          /\ 0 <= fr.alpha
          /\ fr.alpha <= 1000 * fr.n_alpha
          /\ hist.dbl.n >= 1
          /\ fr.n >= 1
    /\ AtDualAveraging =>
          /\ hist.doublings >= 1
          /\ fr.n_alpha >= 1
          /\ 0 <= fr.alpha /\ fr.alpha <= 1000 * fr.n_alpha

\* The doubling loop has ended on a subtree that stopped early, with a
\* leaf outside the slice and an acceptance statistic strictly inside (0, 1).
C28_Witness ==
    /\ AtDualAveraging
    /\ hist.dbl.j >= 1
    /\ fr.n_alpha < 2 ^ hist.dbl.j
    /\ hist.dbl.n_prime < fr.n_alpha
    /\ 0 < fr.alpha
    /\ fr.alpha < 1000 * fr.n_alpha

\* ------------------------------------------------------------------------
\* NUTS: the epsilon of the constructor
\* ------------------------------------------------------------------------

\* The values of the epsilon argument of NUTS.__init__.
ConstructorEpsilons == { Half, Num(2) }

\* What a call of NUTS.sample leaves behind.
Outcome ==
    [ pc |-> pc, exc |-> exc, ret |-> ret, samples |-> inst.samples,
      acceptance_rate |-> inst.acceptance_rate,
      epsilon_history |-> inst.epsilon_history, epsilon |-> inst.epsilon ]

\* A NUTS instance built with some epsilon, for a call of sample() that
\* adapts the step size; aux holds the number of the run and the outcome of
\* the first run.
InitEps ==
    /\ kind = "NUTS"
    /\ \E c \in Configs("NUTS") : \E e \in ConstructorEpsilons :
          /\ c.adapt_steps >= 1
          /\ c.n_samples <= MaxN
          /\ cfg = [c EXCEPT !.epsilon = e]
    /\ inst = [ samples |-> None, acceptance_rate |-> None,
                epsilon |-> cfg.epsilon, epsilon_history |-> <<>> ]
    /\ pc = "new"
    /\ fr = NoFrame
    /\ rng \in 0..(NSeeds - 1)
    /\ exc = NoExc
    /\ ret = None
    /\ hist = [NoHist EXCEPT !.seed = rng]
    /\ aux = [ run |-> 1, first |-> None, again |-> FALSE ]

\* The same call of sample() with the same draws, on a second instance that
\* was built with another epsilon.
RerunFresh ==
    /\ pc \in {"done", "raised"}
    /\ aux.run = 1
    /\ \E e \in ConstructorEpsilons \ {cfg.epsilon} :
          /\ cfg' = [cfg EXCEPT !.epsilon = e]
          /\ inst' = [ samples |-> None, acceptance_rate |-> None,
                       epsilon |-> e, epsilon_history |-> <<>> ]
    /\ aux' = [ run |-> 2, first |-> Some(Outcome), again |-> FALSE ]
    /\ pc' = "new"
    /\ fr' = NoFrame
    /\ rng' = hist.seed
    /\ exc' = NoExc
    /\ ret' = None
    /\ hist' = [NoHist EXCEPT !.seed = hist.seed]
    /\ UNCHANGED kind

\* The same call of sample() with the same draws, on the same instance,
\* which holds the epsilon the first run left.
RerunAgain ==
    /\ pc = "done"
    /\ aux.run = 1
    /\ inst.epsilon # cfg.epsilon
    /\ aux' = [ run |-> 2, first |-> Some(Outcome), again |-> TRUE ]
    /\ pc' = "new"
    /\ fr' = NoFrame
    /\ rng' = hist.seed
    /\ exc' = NoExc
    /\ ret' = None
    /\ hist' = [NoHist EXCEPT !.seed = hist.seed]
    /\ UNCHANGED << kind, cfg, inst >>

NextEps ==
    \/ NUTS_Start
    \/ NUTS_IterStart
    \/ NUTS_Double
    \/ NUTS_IterEnd
    \/ NUTS_Finish
    \/ RerunFresh
    \/ RerunAgain

SpecEps == InitEps /\ [][NextEps]_vars

\* The second run has returned.
SecondReturned == aux.run = 2 /\ pc = "done"

SelectedInTrial(b) ==
    /\ aux.stage = "returned"
    /\ aux.best_diff # PInf
    /\ aux.epsilon = aux.trials[b].epsilon

\* The acceptance rate of trial b.
TrialRate(b) == Rate(aux.trials[b].accepted, aux.trials[b].n_samples)

\* C30: when tune_parameters returns, the instance's acceptance_rate is the
\* one of the trial run made with the selected epsilon, the rate that caused
\* it to be selected.
C30_RateOfSelectedTrial ==
    \A b \in 1..Len(aux.trials) :
        SelectedInTrial(b) => aux.rate = Some(TrialRate(b))

====
